---------------------------- MODULE Spec2Model ----------------------------
(***************************************************************************)
(* A model of the ticket-description engine of ronnin:                     *)
(*   - JiraService.CreateTicket (internal/services, jira service file):    *)
(*     assembly of the description, the section budget, truncation, the    *)
(*     final size check, and the calls to Jira and MongoDB;                *)
(*   - ReportIssueRequest.GetNetworkCalls (internal/models/ticket.go);     *)
(*   - ReportHandler.ReportIssue (internal/handlers/report.go), which      *)
(*     uploads the screenshot, calls GetNetworkCalls and CreateTicket.     *)
(*                                                                         *)
(* Strings whose content the code never inspects (the issue title, the     *)
(* rendered JSON of a map, ...) are opaque: a document is a rope, a         *)
(* sequence of pieces [s, lo, hi], each the characters lo..hi-1 of the     *)
(* string named s.  Only lengths and slices of them are computed, with the *)
(* program's own numbers (a ceiling of 32000, the real wrapper lengths).   *)
(* The strings GetNetworkCalls inspects are sequences of characters.       *)
(***************************************************************************)
EXTENDS Integers, Sequences, FiniteSets, TLC

VARIABLES
    req,              \* the *models.TicketRequest handed to CreateTicket
    mongoConfigured,  \* s.mongoService != nil
    supportTeam,      \* s.supportTeam
    pc,               \* position in CreateTicket
    description,      \* local: the primary document
    essentialLength,  \* local
    limits,           \* local: remainingChars and the four section limits
    sections,         \* local: the four rendered sections
    wasTruncated,     \* local
    truncatedContent, \* local: the strings.Builder of the overflow document
    preGuard,         \* history: description as it was when the final check ran
    assignee,         \* local
    issueTypeID,      \* local
    calls,            \* history: the external calls made, in order
    ctxCancelled,     \* the inbound request's context has been cancelled
    result,           \* what CreateTicket returned
    fnc,              \* r.FailedNetworkCalls, a sequence of characters
    origin,           \* history: the calls and the encoding fnc was made from
    parsed,           \* what GetNetworkCalls returned
    handler,          \* ReportIssue: the form, its locals, the response written
    peer              \* the frame of a second CreateTicket on the same service

vars == <<req, mongoConfigured, supportTeam, pc, description, essentialLength,
          limits, sections, wasTruncated, truncatedContent, preGuard, assignee,
          issueTypeID, calls, ctxCancelled, result, fnc, origin, parsed, handler,
          peer>>

ticketVars == <<req, mongoConfigured, supportTeam, description, essentialLength,
                limits, sections, wasTruncated, truncatedContent, preGuard,
                assignee, issueTypeID, calls, ctxCancelled, result>>

parseVars == <<fnc, origin, parsed>>

\* what CreateTicket does not see
callerVars == <<fnc, origin, parsed, handler, peer>>

-----------------------------------------------------------------------------
(* Program constants.                                                      *)

\* const maxJiraDescLength = 32000
maxJiraDescLength == 32000

\* description[:maxJiraDescLength-100], commentBody[:maxJiraDescLength-100]
guardMargin == 100

\* the -20 of every "len(x) > limit-len(sectionStart)-len(sectionEnd)-20"
triggerMargin == 20

\* the -50 of nc[:networkCallsLimit-len(sectionStart)-len(sectionEnd)-50]
networkCallsCutMargin == 50

\* the -30 of headersJSON[:...-30], responseJSON[:...-30], payloadJSON[:...-30]
sectionCutMargin == 30

\* len(time.Now().Format(time.RFC1123)), "Mon, 02 Jan 2006 15:04:05 MST"
rfc1123Length == 29

\* len("%!s(<nil>)"), what %s writes for the nil of an absent key
nilVerbLength == 10

\* The length of every string literal CreateTicket writes.
LitLen ==
    [ h2Summary     |-> 18,   \* "h2. Issue Summary\n"
      nn            |-> 2,    \* "\n\n"
      nl            |-> 1,    \* "\n"
      h3Description |-> 16,   \* "h3. Description\n"
      userEmail     |-> 16,   \* "* *User Email:* "
      leadId        |-> 13,   \* "* *Lead ID:* "
      product       |-> 13,   \* "* *Product:* "
      pageURL       |-> 14,   \* "* *Page URL:* "
      h3UserInfo    |-> 21,   \* "h3. User Information\n"
      shotImage     |-> 16,   \* "h3. Screenshot\n!"
      shotWidth     |-> 13,   \* "|width=800!\n\n"
      shotNote      |-> 144,  \* "{panel:title=Note|...}\nThis screenshot URL will expire in 7 days.\n{panel}\n\n"
      shotText      |-> 15,   \* "h3. Screenshot\n"
      createdOn     |-> 19,   \* "Ticket created on: "
      ncStart       |-> 119,  \* "{panel:title=Failed Network Calls|collapsed=true|...}\n"
      sectionEnd    |-> 9,    \* "{panel}\n\n"
      codeJson      |-> 12,   \* "{code:json}\n"
      codeEnd       |-> 8,    \* "\n{code}\n"
      codePlain     |-> 7,    \* "{code}\n"
      ncNote        |-> 48,   \* "Network calls data truncated to fit Jira limit:\n"
      ncMarker      |-> 26,   \* "\n...[truncated]...\n{code}\n"
      marker        |-> 19,   \* "\n...[truncated]...\n"
      ncFailed      |-> 45,   \* "Failed to format network calls data as JSON.\n"
      completeNC    |-> 27,   \* "h3. Complete Network Calls\n"
      technical     |-> 23,   \* "h3. Technical Details\n\n"
      headersStart  |-> 114,  \* "{panel:title=Request Headers|collapsed=true|...}\n"
      completeHdr   |-> 29,   \* "h3. Complete Request Headers\n"
      noHeaders     |-> 30,   \* "No request headers available.\n"
      responseStart |-> 107,  \* "{panel:title=Response|collapsed=true|...}\n"
      completeResp  |-> 22,   \* "h3. Complete Response\n"
      noResponse    |-> 28,   \* "No response data available.\n"
      payloadStart  |-> 116,  \* "{panel:title=Full Payload Data|collapsed=true|...}\n"
      completePay   |-> 21,   \* "h3. Complete Payload\n"
      fullOriginal  |-> 30,   \* "h3. Full Original Description\n"
      guardNotice   |-> 89,   \* "\n\n[Content truncated due to Jira character limit. See comments for complete information.]"
      commentNotice |-> 49,   \* "\n\n[Comment truncated due to Jira character limit]"
      additional    |-> 58 ]  \* "Additional details that couldn't fit in the description:\n\n"

-----------------------------------------------------------------------------
(* Ropes: Go strings whose characters the code does not look at.           *)

\* the characters lo..hi-1 of the string named s
Piece(s, lo, hi) == IF hi > lo THEN <<[s |-> s, lo |-> lo, hi |-> hi]>> ELSE <<>>

\* a string literal of the source
Lit(name) == Piece(name, 0, LitLen[name])

\* a whole opaque string of n characters
Str(name, n) == Piece(name, 0, n)

\* len(s)
RECURSIVE RopeLen(_)
RopeLen(r) == IF r = <<>> THEN 0 ELSE (r[1].hi - r[1].lo) + RopeLen(Tail(r))

\* s[:n], for 0 <= n <= len(s)
RECURSIVE RopeTake(_, _)
RopeTake(r, n) ==
    IF n <= 0 \/ r = <<>> THEN <<>>
    ELSE LET w == r[1].hi - r[1].lo IN
         IF w <= n THEN <<r[1]>> \o RopeTake(Tail(r), n - w)
         ELSE Piece(r[1].s, r[1].lo, r[1].lo + n)

\* s[:n] is in range; Go panics on s[:n] otherwise
SliceInRange(n, len) == 0 <= n /\ n <= len

\* part occurs in whole, piece for piece
Contains(whole, part) ==
    \E i \in 1..(Len(whole) - Len(part) + 1) :
        SubSeq(whole, i, i + Len(part) - 1) = part

\* Go's integer division, which truncates toward zero
GoDiv(a, b) == IF a >= 0 THEN a \div b ELSE -((-a) \div b)

-----------------------------------------------------------------------------
(* The request.  A *models.TicketRequest is described by what CreateTicket *)
(* reads of it:                                                            *)
(*   hasIssue    req.Payload has the key "issue"                           *)
(*   issueLen    len of fmt.Sprintf("%s", req.Payload["issue"]); without   *)
(*               the key the verb writes "%!s(<nil>)"                      *)
(*   descLen, emailLen, leadLen, productLen                                *)
(*               len of the string at that key of req.Payload, 0 when the  *)
(*               key is absent, not a string or ""                         *)
(*   url         req.Payload["url"]: whether it is a string, and its len   *)
(*   reqURLLen   len(req.URL)                                              *)
(*   image       req.ImageS3URL: "empty", the literals "None" and "null",  *)
(*               a string that starts with "http", any other "text"        *)
(*   nc          req.Payload["failedNetworkCalls"]: "absent", "nil", a     *)
(*               "string" of len n, a "struct" value whose json.Marshal    *)
(*               has len n, a value json.Marshal fails on ("unmarshalable")*)
(*   headersLen  len of json.MarshalIndent(req.RequestHeaders), 0 for an   *)
(*               empty map (a map[string]string always marshals)           *)
(*   resp        req.Response: "empty", "json" with the len of its         *)
(*               MarshalIndent, "unmarshalable" with the len of its %v     *)
(*   payExtra    characters the other keys of req.Payload add to its JSON  *)
(*   payErr      json.MarshalIndent(req.Payload) fails                     *)

\* len of one `  "key": value` line of json.MarshalIndent(m, "", "  ")
JsonEntryLen(keyLen, valueLen) == 2 + (keyLen + 2) + 2 + valueLen

\* len of one key:value of fmt.Sprintf("%v", m)
FmtEntryLen(keyLen, valueLen) == keyLen + 1 + valueLen

\* The keys of req.Payload that CreateTicket knows, each <<len(key), len of the
\* value as a JSON value, len of the value under %v>>; a key enters when present.
PayloadKnownEntries(r) ==
    (IF r.descLen > 0 THEN <<<<11, r.descLen + 2, r.descLen>>>> ELSE <<>>)
    \o (CASE r.nc.kind = "string" -> <<<<18, r.nc.len + 2, r.nc.len>>>>
          [] r.nc.kind = "struct" -> <<<<18, r.nc.len, r.nc.len>>>>
          [] r.nc.kind = "unmarshalable" -> <<<<18, 0, r.nc.len>>>>
          [] r.nc.kind = "nil" -> <<<<18, 4, 5>>>>
          [] OTHER -> <<>>)
    \o (IF r.hasIssue THEN <<<<5, r.issueLen + 2, r.issueLen>>>> ELSE <<>>)
    \o (IF r.leadLen > 0 THEN <<<<6, r.leadLen + 2, r.leadLen>>>> ELSE <<>>)
    \o (IF r.productLen > 0 THEN <<<<7, r.productLen + 2, r.productLen>>>> ELSE <<>>)
    \o (IF r.url.isString THEN <<<<3, r.url.len + 2, r.url.len>>>> ELSE <<>>)
    \o (IF r.emailLen > 0 THEN <<<<9, r.emailLen + 2, r.emailLen>>>> ELSE <<>>)

RECURSIVE SumJsonEntries(_)
SumJsonEntries(es) ==
    IF es = <<>> THEN 0
    ELSE JsonEntryLen(es[1][1], es[1][2]) + SumJsonEntries(Tail(es))

RECURSIVE SumFmtEntries(_)
SumFmtEntries(es) ==
    IF es = <<>> THEN 0
    ELSE FmtEntryLen(es[1][1], es[1][3]) + SumFmtEntries(Tail(es))

\* len(payloadJSON): "{\n" + the lines joined by ",\n" + "\n}", plus the other keys
\* an empty map is "{}"
PayloadJSONLen(r) ==
    LET es == PayloadKnownEntries(r) IN
    IF es = <<>> THEN 2 + r.payExtra
    ELSE 4 + SumJsonEntries(es) + 2 * (Len(es) - 1) + r.payExtra

\* len(payloadStr): "map[" + the pairs joined by " " + "]", plus the other keys
\* an empty map is "map[]"
PayloadStrLen(r) ==
    LET es == PayloadKnownEntries(r) IN
    IF es = <<>> THEN 5 + r.payExtra
    ELSE 5 + SumFmtEntries(es) + (Len(es) - 1) + r.payExtra

-----------------------------------------------------------------------------
(* CreateTicket, lines 59-107: the essential content.                      *)

\* description := fmt.Sprintf("h2. Issue Summary\n%s\n\n", req.Payload["issue"])
IssueSummary(r) == Lit("h2Summary") \o Str("issue", r.issueLen) \o Lit("nn")

\* the "h3. Description" block, when the payload has a non-empty description
DescriptionBlock(r) ==
    IF r.descLen > 0
    THEN Lit("h3Description") \o Str("description", r.descLen) \o Lit("nn")
    ELSE <<>>

\* the page URL shown: the payload's url when a non-empty string, else req.URL
PageURLShown(r) ==
    IF r.url.isString /\ r.url.len > 0 THEN Str("payload.url", r.url.len)
    ELSE IF r.reqURLLen > 0 THEN Str("req.URL", r.reqURLLen)
    ELSE <<>>

metadataSection(r) ==
    (IF r.emailLen > 0
     THEN Lit("userEmail") \o Str("userEmail", r.emailLen) \o Lit("nl") ELSE <<>>)
    \o (IF r.leadLen > 0
        THEN Lit("leadId") \o Str("leadId", r.leadLen) \o Lit("nl") ELSE <<>>)
    \o (IF r.productLen > 0
        THEN Lit("product") \o Str("product", r.productLen) \o Lit("nl") ELSE <<>>)
    \o (IF PageURLShown(r) # <<>>
        THEN Lit("pageURL") \o PageURLShown(r) \o Lit("nl") ELSE <<>>)

MetadataBlock(r) ==
    IF metadataSection(r) # <<>>
    THEN Lit("h3UserInfo") \o metadataSection(r) \o Lit("nn")
    ELSE <<>>

\* req.ImageS3URL != "" && != "None" && != "null", then by HasPrefix(.., "http")
ScreenshotBlock(r) ==
    CASE r.image.kind = "http" ->
            Lit("shotImage") \o Str("ImageS3URL", r.image.len) \o Lit("shotWidth")
            \o Lit("shotNote")
      [] r.image.kind = "text" ->
            Lit("shotText") \o Str("ImageS3URL", r.image.len) \o Lit("nn")
      [] OTHER -> <<>>

\* timestamp := fmt.Sprintf("Ticket created on: %s\n", time.Now().Format(time.RFC1123))
timestamp == Lit("createdOn") \o Str("now", rfc1123Length) \o Lit("nl")

\* a variant: the timestamp line written first
EssentialContentMutTimestampFirst(r) ==
    timestamp \o IssueSummary(r) \o DescriptionBlock(r) \o MetadataBlock(r)
    \o ScreenshotBlock(r)

\* description as it stands at line 107
EssentialContent(r) ==
    IssueSummary(r) \o DescriptionBlock(r) \o MetadataBlock(r) \o ScreenshotBlock(r)
    \o timestamp

-----------------------------------------------------------------------------
(* CreateTicket, lines 109-119: the budget.                                *)

\* a variant: the half rounded up
networkCallsLimitMutHalfUp(remainingChars) == GoDiv(remainingChars + 1, 2)

networkCallsLimit(remainingChars) == GoDiv(remainingChars, 2)

headersLimit(remainingChars) == GoDiv(remainingChars, 5)

responseLimit(remainingChars) == GoDiv(remainingChars, 5)

\* a variant: the payload given its own tenth instead of what is left
payloadLimitMutTenth(remainingChars) == GoDiv(remainingChars, 10)

payloadLimit(remainingChars) ==
    remainingChars - networkCallsLimit(remainingChars) - headersLimit(remainingChars)
    - responseLimit(remainingChars)

\* remainingChars := maxJiraDescLength - essentialLength, and the four limits
Budget(essLen) ==
    LET remainingChars == maxJiraDescLength - essLen IN
    [ remainingChars    |-> remainingChars,
      networkCallsLimit |-> networkCallsLimit(remainingChars),
      headersLimit      |-> headersLimit(remainingChars),
      responseLimit     |-> responseLimit(remainingChars),
      payloadLimit      |-> payloadLimit(remainingChars) ]

-----------------------------------------------------------------------------
(* CreateTicket, lines 121-315: the four variable sections.  Rendering a   *)
(* section yields                                                          *)
(*   panics     the slice expression of the truncating branch is out of    *)
(*              range: the goroutine panics there                          *)
(*   truncated  the truncating branch was taken (wasTruncated = true)      *)
(*   overflow   what was written to truncatedContent                       *)
(*   section    the rendered section ("" when absent, or when it panics)   *)
(*   rendered   the content was rendered to a string (not a placeholder)   *)
(*   full       the rendered content before truncation                     *)
(*   usable     limit - len(sectionStart) - len(sectionEnd)                *)

NoSection ==
    [ panics |-> FALSE, truncated |-> FALSE, overflow |-> <<>>, section |-> <<>>,
      rendered |-> FALSE, full |-> <<>>, usable |-> 0 ]

\* a variant: the content cut only when it is longer than the usable budget
ExceedsLimitMutNoMargin(n, usable, margin) == n > usable

\* len(x) > limit-len(sectionStart)-len(sectionEnd)-20 (-30 in the %v fallbacks)
ExceedsLimit(n, usable, margin) == n > usable - margin

\* lines 131-145 and 148-162: the network calls given as a string (name "nc")
\* or marshalled to ncJSON
NetworkCallsContent(name, n, limit) ==
    LET usable      == limit - LitLen["ncStart"] - LitLen["sectionEnd"]
        cut         == usable - networkCallsCutMargin
        fullContent == Lit("codeJson") \o Str(name, n) \o Lit("codeEnd")
    IN  IF ExceedsLimit(n, usable, triggerMargin)
        THEN [ panics    |-> ~SliceInRange(cut, n),
               truncated |-> TRUE,
               overflow  |-> Lit("completeNC") \o fullContent \o Lit("nn"),
               section   |-> IF SliceInRange(cut, n)
                             THEN Lit("ncStart") \o Lit("ncNote") \o Lit("codeJson")
                                  \o Piece(name, 0, cut) \o Lit("ncMarker")
                                  \o Lit("sectionEnd")
                             ELSE <<>>,
               rendered  |-> TRUE,
               full      |-> Str(name, n),
               usable    |-> usable ]
        ELSE [ panics    |-> FALSE,
               truncated |-> FALSE,
               overflow  |-> <<>>,
               section   |-> Lit("ncStart") \o fullContent \o Lit("sectionEnd"),
               rendered  |-> TRUE,
               full      |-> Str(name, n),
               usable    |-> usable ]

\* lines 121-170
NetworkCallsSection(r, limit) ==
    CASE r.nc.kind = "string" -> NetworkCallsContent("nc", r.nc.len, limit)
      [] r.nc.kind = "struct" -> NetworkCallsContent("ncJSON", r.nc.len, limit)
      [] r.nc.kind = "unmarshalable" ->
            [ NoSection EXCEPT
                !.section = Lit("ncStart") \o Lit("ncFailed") \o Lit("sectionEnd"),
                !.usable = limit - LitLen["ncStart"] - LitLen["sectionEnd"] ]
      [] OTHER -> NoSection

\* The shape shared by lines 181-197/222-223, 235-251/268-269, 253-267,
\* 280-296/313-314 and 298-312: a {code:json} block of the string `name` of n
\* characters, cut to usable-30 when n exceeds usable-trigger.
CodeSection(start, complete, name, n, limit, trigger) ==
    LET usable      == limit - LitLen[start] - LitLen["sectionEnd"]
        cut         == usable - sectionCutMargin
        fullContent == Lit("codeJson") \o Str(name, n) \o Lit("codeEnd")
    IN  IF ExceedsLimit(n, usable, trigger)
        THEN [ panics    |-> ~SliceInRange(cut, n),
               truncated |-> TRUE,
               overflow  |-> Lit(complete) \o fullContent \o Lit("nn"),
               section   |-> IF SliceInRange(cut, n)
                             THEN Lit(start) \o Lit("codeJson") \o Piece(name, 0, cut)
                                  \o Lit("marker") \o Lit("codeEnd")
                                  \o Lit("sectionEnd")
                             ELSE <<>>,
               rendered  |-> TRUE,
               full      |-> Str(name, n),
               usable    |-> usable ]
        ELSE [ panics    |-> FALSE,
               truncated |-> FALSE,
               overflow  |-> <<>>,
               section   |-> Lit(start) \o Lit("codeJson") \o Str(name, n)
                             \o Lit("codeEnd") \o Lit("sectionEnd"),
               rendered  |-> TRUE,
               full      |-> Str(name, n),
               usable    |-> usable ]

\* a variant: the headers rendered as JSON even when there are none
HeaderSectionMutNoPlaceholder(r, limit) ==
    CodeSection("headersStart", "completeHdr", "headersJSON", r.headersLen + 2,
                limit, triggerMargin)

\* lines 175-227; json.MarshalIndent of a map[string]string cannot fail, so the
\* key-value fallback of lines 198-221 is never run
HeaderSection(r, limit) ==
    IF r.headersLen > 0
    THEN CodeSection("headersStart", "completeHdr", "headersJSON", r.headersLen,
                     limit, triggerMargin)
    ELSE [ NoSection EXCEPT
             !.section = Lit("headersStart") \o Lit("noHeaders") \o Lit("sectionEnd"),
             !.usable = limit - LitLen["headersStart"] - LitLen["sectionEnd"] ]

\* lines 229-273
ResponseSection(r, limit) ==
    CASE r.resp.kind = "json" ->
            CodeSection("responseStart", "completeResp", "responseJSON", r.resp.len,
                        limit, triggerMargin)
      [] r.resp.kind = "unmarshalable" ->
            CodeSection("responseStart", "completeResp", "respStr", r.resp.len,
                        limit, sectionCutMargin)
      [] OTHER ->
            [ NoSection EXCEPT
                !.section = Lit("responseStart") \o Lit("noResponse")
                            \o Lit("sectionEnd"),
                !.usable = limit - LitLen["responseStart"] - LitLen["sectionEnd"] ]

\* lines 275-315
PayloadSection(r, limit) ==
    IF ~r.payErr
    THEN CodeSection("payloadStart", "completePay", "payloadJSON", PayloadJSONLen(r),
                     limit, triggerMargin)
    ELSE CodeSection("payloadStart", "completePay", "payloadStr", PayloadStrLen(r),
                     limit, sectionCutMargin)

-----------------------------------------------------------------------------
(* CreateTicket, lines 317-326: the final check.                           *)

\* a variant: the description cut at maxJiraDescLength, without the margin
GuardedDescriptionMutNoMargin(d) == RopeTake(d, maxJiraDescLength) \o Lit("guardNotice")

\* a variant: the description cut to half the ceiling
GuardedDescriptionMutHalf(d) ==
    RopeTake(d, maxJiraDescLength \div 2) \o Lit("guardNotice")

\* description[:maxJiraDescLength-100] + the notice
GuardedDescription(d) ==
    RopeTake(d, maxJiraDescLength - guardMargin) \o Lit("guardNotice")

\* a variant: the overflow document given the description after the cut
GuardOverflowMutCut(d) ==
    Lit("fullOriginal") \o RopeTake(d, maxJiraDescLength) \o Lit("nn")

\* a variant: the heading written without the description
GuardOverflowMutHeadingOnly(d) == Lit("fullOriginal") \o Lit("nn")

\* what the final check writes to truncatedContent
GuardOverflow(d) == Lit("fullOriginal") \o d \o Lit("nn")

\* len(description) > maxJiraDescLength
\* a variant: the final check taken whatever the length
GuardFiresMutAlways(d) == TRUE

\* a variant: the final check taken only beyond the ceiling plus the margin
GuardFiresMutSlack(d) == RopeLen(d) > maxJiraDescLength + guardMargin

GuardFires(d) == RopeLen(d) > maxJiraDescLength

-----------------------------------------------------------------------------
(* CreateTicket, lines 328-563: the assignee, the calls to Jira and to     *)
(* MongoDB, and the result.                                                *)

\* getRandomTeamMember: the members rand.Intn(len(s.supportTeam)) can select
\* a variant: the index always 0
getRandomTeamMemberMutFirst(team) == IF Len(team) = 0 THEN {""} ELSE {team[1]}

getRandomTeamMember(team) ==
    IF Len(team) = 0 THEN {""} ELSE { team[i] : i \in 1..Len(team) }

\* a variant: without the default of lines 349-352
IssueTypeForMutNoDefault(meta) ==
    CASE meta = "bug" -> "bugId"
      [] meta = "error" -> "10001"
      [] OTHER -> ""

\* lines 331-352: the issue type id, by what GetCreateMeta answered:
\* "error", "noBug" (no project or no type named Bug), "bug" (a Bug type, id
\* bugId), "bugNoId" (a Bug type whose Id is "")
IssueTypeFor(meta) == IF meta = "bug" THEN "bugId" ELSE "10001"

\* what GetCreateMeta can answer
MetaAnswers == {"error", "noBug", "bug", "bugNoId"}

\* lines 457-463: the body of the comment
\* a variant: the comment body sent as it is, whatever its length
CommentBodyMutWhole(tc) == tc

CommentBody(tc) ==
    IF RopeLen(tc) > maxJiraDescLength
    THEN RopeTake(tc, maxJiraDescLength - guardMargin) \o Lit("commentNotice")
    ELSE tc

\* lines 449-454: the *models.TicketResponse
TicketResponse(who) ==
    [ kind |-> "response", TicketID |-> "KEY", Status |-> "created",
      AssignedTo |-> who, JiraLink |-> "https://host/browse/KEY" ]

\* line 439: return nil, fmt.Errorf("failed to create Jira ticket: ...")
CreateError == [ kind |-> "error" ]

NoResult == [ kind |-> "none" ]

\* lines 508-513: flattenedTicket.PageURL
FlattenedPageURL(r) ==
    IF r.url.isString THEN Str("payload.url", r.url.len) ELSE Str("req.URL", r.reqURLLen)

\* a variant: the comment added whether or not anything was truncated
AfterCreateMutAlwaysComment(truncated, mongo) == "comment"

\* where CreateTicket goes once the issue exists (lines 457, 481)
\* a variant: the comment never added
AfterCreateMutNeverComment(truncated, mongo) == IF mongo THEN "save" ELSE "return"

AfterCreate(truncated, mongo) ==
    IF truncated THEN "comment" ELSE IF mongo THEN "save" ELSE "return"

\* a variant: a failed AddComment returned as the request's error
AfterCommentMutFailOnError(ok, mongo) ==
    IF ~ok THEN "fail" ELSE IF mongo THEN "save" ELSE "return"

\* where CreateTicket goes after AddComment, whatever it answered (lines 471-478)
\* a variant: the ticket not saved when the comment could not be added
AfterCommentMutSkipSave(ok, mongo) == IF ok /\ mongo THEN "save" ELSE "return"

AfterComment(ok, mongo) == IF mongo THEN "save" ELSE "return"

\* where CreateTicket goes after SaveTicket, whatever it answered (lines 553-559)
AfterSave(ok) == "return"

\* a variant: the error of Issue.Create ignored
AfterIssueCreateMutIgnoreError(ok, truncated, mongo) == AfterCreate(truncated, mongo)

\* where CreateTicket goes after Issue.Create (lines 419-441)
AfterIssueCreate(ok, truncated, mongo) ==
    IF ok THEN AfterCreate(truncated, mongo) ELSE "fail"

-----------------------------------------------------------------------------
(* The steps of CreateTicket.                                              *)

SectionNames == {"networkCalls", "headers", "response", "payload"}

Ended == {"done", "panicked"}

\* lines 55-107
BuildEssential ==
    /\ pc = "start"
    /\ description' = EssentialContent(req)
    /\ essentialLength' = RopeLen(EssentialContent(req))
    /\ pc' = "budget"
    /\ UNCHANGED <<req, mongoConfigured, supportTeam, limits, sections, wasTruncated,
                   truncatedContent, preGuard, assignee, issueTypeID, calls,
                   ctxCancelled, result>>
    /\ UNCHANGED callerVars

\* lines 109-119
AllocateBudget ==
    /\ pc = "budget"
    /\ limits' = Budget(essentialLength)
    /\ pc' = "networkCalls"
    /\ UNCHANGED <<req, mongoConfigured, supportTeam, description, essentialLength,
                   sections, wasTruncated, truncatedContent, preGuard, assignee,
                   issueTypeID, calls, ctxCancelled, result>>
    /\ UNCHANGED callerVars

\* One section is rendered and appended; `after` is what the code appends
\* right behind it.  A slice out of range panics: what was written to
\* wasTruncated and truncatedContent before it stays, the description does not
\* receive the section and CreateTicket does not go on.
RenderStep(at, name, rendered, after, next) ==
    /\ pc = at
    /\ sections' = [sections EXCEPT ![name] = rendered]
    /\ wasTruncated' = (wasTruncated \/ rendered.truncated)
    /\ truncatedContent' = truncatedContent \o rendered.overflow
    /\ IF rendered.panics
       THEN /\ pc' = "panicked"
            /\ UNCHANGED description
       ELSE /\ pc' = next
            /\ description' = description \o rendered.section \o after
    /\ UNCHANGED <<req, mongoConfigured, supportTeam, essentialLength, limits,
                   preGuard, assignee, issueTypeID, calls, ctxCancelled, result>>
    /\ UNCHANGED callerVars

\* lines 121-173
RenderNetworkCalls ==
    RenderStep("networkCalls", "networkCalls",
               NetworkCallsSection(req, limits.networkCallsLimit),
               Lit("technical"), "headers")

\* lines 175-227
RenderHeaders ==
    RenderStep("headers", "headers", HeaderSection(req, limits.headersLimit),
               <<>>, "response")

\* lines 229-273
RenderResponse ==
    RenderStep("response", "response", ResponseSection(req, limits.responseLimit),
               <<>>, "payload")

\* lines 275-315
RenderPayload ==
    RenderStep("payload", "payload", PayloadSection(req, limits.payloadLimit),
               <<>>, "guard")

\* lines 317-326
FinalCheck ==
    /\ pc = "guard"
    /\ preGuard' = description
    /\ IF GuardFires(description)
       THEN /\ wasTruncated' = TRUE
            /\ truncatedContent' = truncatedContent \o GuardOverflow(description)
            /\ description' = GuardedDescription(description)
       ELSE UNCHANGED <<wasTruncated, truncatedContent, description>>
    /\ pc' = "assign"
    /\ UNCHANGED <<req, mongoConfigured, supportTeam, essentialLength, limits,
                   sections, assignee, issueTypeID, calls, ctxCancelled, result>>
    /\ UNCHANGED callerVars

\* line 329
SelectAssignee ==
    /\ pc = "assign"
    /\ \E who \in getRandomTeamMember(supportTeam) : assignee' = who
    /\ pc' = "lookup"
    /\ UNCHANGED <<req, mongoConfigured, supportTeam, description, essentialLength,
                   limits, sections, wasTruncated, truncatedContent, preGuard,
                   issueTypeID, calls, ctxCancelled, result>>
    /\ UNCHANGED callerVars

\* lines 331-352: s.client.Issue.GetCreateMeta(s.projectKey)
LookupIssueType ==
    /\ pc = "lookup"
    /\ \E meta \in MetaAnswers :
          /\ issueTypeID' = IssueTypeFor(meta)
          /\ calls' = Append(calls, [op |-> "GetCreateMeta", ok |-> meta # "error",
                                     meta |-> meta])
    /\ pc' = "create"
    /\ UNCHANGED <<req, mongoConfigured, supportTeam, description, essentialLength,
                   limits, sections, wasTruncated, truncatedContent, preGuard,
                   assignee, ctxCancelled, result>>
    /\ UNCHANGED callerVars

\* lines 354-441: s.client.Issue.Create(issue); the context is not handed to it
CreateIssue ==
    /\ pc = "create"
    /\ \E ok \in BOOLEAN :
          /\ calls' = Append(calls, [op |-> "Create", ok |-> ok,
                                     Description |-> description,
                                     Type |-> issueTypeID, Assignee |-> assignee])
          /\ pc' = AfterIssueCreate(ok, wasTruncated, mongoConfigured)
    /\ UNCHANGED <<req, mongoConfigured, supportTeam, description, essentialLength,
                   limits, sections, wasTruncated, truncatedContent, preGuard,
                   assignee, issueTypeID, ctxCancelled, result>>
    /\ UNCHANGED callerVars

\* lines 456-478: s.client.Issue.AddComment(newIssue.Key, comment)
AddComment ==
    /\ pc = "comment"
    /\ \E ok \in BOOLEAN :
          /\ calls' = Append(calls, [op |-> "AddComment", ok |-> ok,
                                     Body |-> CommentBody(truncatedContent)])
          /\ pc' = AfterComment(ok, mongoConfigured)
    /\ UNCHANGED <<req, mongoConfigured, supportTeam, description, essentialLength,
                   limits, sections, wasTruncated, truncatedContent, preGuard,
                   assignee, issueTypeID, ctxCancelled, result>>
    /\ UNCHANGED callerVars

\* lines 480-560: s.mongoService.SaveTicket(ctx, flattenedTicket); InsertOne
\* is given ctx and fails once ctx is cancelled
SaveTicket ==
    /\ pc = "save"
    /\ \E ok \in (IF ctxCancelled THEN {FALSE} ELSE BOOLEAN) :
          /\ calls' = Append(calls, [op |-> "SaveTicket", ok |-> ok,
                                     PageURL |-> FlattenedPageURL(req),
                                     AssignedTo |-> assignee])
          /\ pc' = AfterSave(ok)
    /\ UNCHANGED <<req, mongoConfigured, supportTeam, description, essentialLength,
                   limits, sections, wasTruncated, truncatedContent, preGuard,
                   assignee, issueTypeID, ctxCancelled, result>>
    /\ UNCHANGED callerVars

\* line 562: return ticketResponse, nil
ReturnResponse ==
    /\ pc = "return"
    /\ result' = TicketResponse(assignee)
    /\ pc' = "done"
    /\ UNCHANGED <<req, mongoConfigured, supportTeam, description, essentialLength,
                   limits, sections, wasTruncated, truncatedContent, preGuard,
                   assignee, issueTypeID, calls, ctxCancelled>>
    /\ UNCHANGED callerVars

\* line 439: return nil, fmt.Errorf(...)
ReturnError ==
    /\ pc = "fail"
    /\ result' = CreateError
    /\ pc' = "done"
    /\ UNCHANGED <<req, mongoConfigured, supportTeam, description, essentialLength,
                   limits, sections, wasTruncated, truncatedContent, preGuard,
                   assignee, issueTypeID, calls, ctxCancelled>>
    /\ UNCHANGED callerVars

\* The caller's context is cancelled (c.Request.Context(): the client went
\* away), at any moment while CreateTicket runs.
CancelContext ==
    /\ pc \notin Ended
    /\ ~ctxCancelled
    /\ ctxCancelled' = TRUE
    /\ UNCHANGED <<req, mongoConfigured, supportTeam, pc, description,
                   essentialLength, limits, sections, wasTruncated, truncatedContent,
                   preGuard, assignee, issueTypeID, calls, result>>
    /\ UNCHANGED callerVars

-----------------------------------------------------------------------------
(* encoding/json, as far as GetNetworkCalls uses it.  A string is a        *)
(* sequence of characters.  The texts explored are written with the        *)
(* characters [ ] { } : , " \ ' space, newline and the letters of pageUrl, *)
(* so no number, no true/false/null and no \u escape can occur in them; on *)
(* every other text the scanner below decides as encoding/json does.       *)

Quote == "\""

Backslash == "\\"

Newline == "\n"

\* what encoding/json skips between tokens, among the characters used
JsonSpace == {" ", Newline}

\* the characters \x stands for in a string literal
EscapedChar(c) ==
    CASE c = Quote -> Quote
      [] c = Backslash -> Backslash
      [] c = "/" -> "/"
      [] c = "n" -> Newline
      [] c = "r" -> "\r"
      [] c = "t" -> "\t"
      [] c = "f" -> "\f"
      [] c = "b" -> "<BS>"

ParseFailure == [ok |-> FALSE, val |-> [t |-> "none", v |-> <<>>], pos |-> 0]

RECURSIVE SkipSpace(_, _)
SkipSpace(s, i) ==
    IF i <= Len(s) /\ s[i] \in JsonSpace THEN SkipSpace(s, i + 1) ELSE i

\* the string literal whose opening quote is before position i
RECURSIVE ScanString(_, _, _)
ScanString(s, i, acc) ==
    IF i > Len(s) THEN ParseFailure
    ELSE IF s[i] = Quote THEN [ok |-> TRUE, val |-> [t |-> "str", v |-> acc], pos |-> i + 1]
    ELSE IF s[i] = Backslash
         THEN IF i + 1 <= Len(s)
                 /\ s[i + 1] \in {Quote, Backslash, "/", "n", "r", "t", "f", "b"}
              THEN ScanString(s, i + 2, Append(acc, EscapedChar(s[i + 1])))
              ELSE ParseFailure
    ELSE IF s[i] = Newline THEN ParseFailure
    ELSE ScanString(s, i + 1, Append(acc, s[i]))

RECURSIVE ScanValue(_, _)
RECURSIVE ScanElements(_, _, _)
RECURSIVE ScanMembers(_, _, _)

\* the value that starts at or after position i
ScanValue(s, i) ==
    LET j == SkipSpace(s, i) IN
    IF j > Len(s) THEN ParseFailure
    ELSE IF s[j] = Quote THEN ScanString(s, j + 1, <<>>)
    ELSE IF s[j] = "["
         THEN LET k == SkipSpace(s, j + 1) IN
              IF k <= Len(s) /\ s[k] = "]"
              THEN [ok |-> TRUE, val |-> [t |-> "arr", v |-> <<>>], pos |-> k + 1]
              ELSE ScanElements(s, j + 1, <<>>)
    ELSE IF s[j] = "{"
         THEN LET k == SkipSpace(s, j + 1) IN
              IF k <= Len(s) /\ s[k] = "}"
              THEN [ok |-> TRUE, val |-> [t |-> "obj", v |-> <<>>], pos |-> k + 1]
              ELSE ScanMembers(s, j + 1, <<>>)
    ELSE ParseFailure

\* the elements of an array, from position i, up to its "]"
ScanElements(s, i, acc) ==
    LET e == ScanValue(s, i) IN
    IF ~e.ok THEN ParseFailure
    ELSE LET k == SkipSpace(s, e.pos) IN
         IF k > Len(s) THEN ParseFailure
         ELSE IF s[k] = "," THEN ScanElements(s, k + 1, Append(acc, e.val))
         ELSE IF s[k] = "]"
              THEN [ok |-> TRUE, val |-> [t |-> "arr", v |-> Append(acc, e.val)],
                    pos |-> k + 1]
         ELSE ParseFailure

\* the members of an object, from position i, up to its "}"
ScanMembers(s, i, acc) ==
    LET j == SkipSpace(s, i) IN
    IF j > Len(s) \/ s[j] # Quote THEN ParseFailure
    ELSE LET key == ScanString(s, j + 1, <<>>) IN
         IF ~key.ok THEN ParseFailure
         ELSE LET c == SkipSpace(s, key.pos) IN
              IF c > Len(s) \/ s[c] # ":" THEN ParseFailure
              ELSE LET e == ScanValue(s, c + 1) IN
                   IF ~e.ok THEN ParseFailure
                   ELSE LET k == SkipSpace(s, e.pos)
                            m == Append(acc, [key |-> key.val.v, val |-> e.val])
                        IN  IF k > Len(s) THEN ParseFailure
                            ELSE IF s[k] = "," THEN ScanMembers(s, k + 1, m)
                            ELSE IF s[k] = "}"
                                 THEN [ok |-> TRUE, val |-> [t |-> "obj", v |-> m],
                                       pos |-> k + 1]
                            ELSE ParseFailure

\* the whole of s is one JSON value (json's checkValid)
ParseJSON(s) ==
    LET r == ScanValue(s, 1) IN
    IF r.ok /\ SkipSpace(s, r.pos) = Len(s) + 1 THEN r ELSE ParseFailure

pageUrlKey == <<"p", "a", "g", "e", "U", "r", "l">>

\* A models.NetworkCall, by its PageURL; the other fields decode alike and
\* are in no text explored.
ZeroNetworkCall == [PageURL |-> <<>>]

\* the members of an object v that set PageURL
RECURSIVE DecodeMembers(_, _)
DecodeMembers(ms, acc) ==
    IF ms = <<>> THEN acc
    ELSE IF ms[1].key # pageUrlKey THEN DecodeMembers(Tail(ms), acc)
    ELSE IF ms[1].val.t = "str"
         THEN DecodeMembers(Tail(ms), [acc EXCEPT !.call = [PageURL |-> ms[1].val.v]])
         ELSE DecodeMembers(Tail(ms), [acc EXCEPT !.typeError = TRUE])

\* json decoding one array element into a NetworkCall: a mismatch is saved as
\* an UnmarshalTypeError and decoding goes on
DecodeNetworkCall(v) ==
    IF v.t = "obj"
    THEN DecodeMembers(v.v, [call |-> ZeroNetworkCall, typeError |-> FALSE])
    ELSE [call |-> ZeroNetworkCall, typeError |-> TRUE]

\* json decoding a parsed value r into calls: err, and calls afterwards.  A
\* syntax error leaves calls alone; a value that is no array is a type error
\* and leaves calls alone; an array is decoded element by element.
DecodeCalls(r, calls0) ==
    IF ~r.ok \/ r.val.t # "arr" THEN [err |-> TRUE, calls |-> calls0]
    ELSE [ err   |-> \E i \in 1..Len(r.val.v) : DecodeNetworkCall(r.val.v[i]).typeError,
           calls |-> [i \in 1..Len(r.val.v) |-> DecodeNetworkCall(r.val.v[i]).call] ]

\* json.Unmarshal([]byte(s), &calls)
UnmarshalCalls(s, calls0) == DecodeCalls(ParseJSON(s), calls0)

\* json decoding a parsed value r into a string
DecodeString(r) ==
    IF r.ok /\ r.val.t = "str" THEN [err |-> FALSE, str |-> r.val.v]
    ELSE [err |-> TRUE, str |-> <<>>]

\* json.Unmarshal([]byte(s), &decodedString)
UnmarshalString(s) == DecodeString(ParseJSON(s))

-----------------------------------------------------------------------------
(* package strings                                                         *)

RECURSIVE TrimLeft(_)
TrimLeft(s) == IF s # <<>> /\ s[1] \in JsonSpace THEN TrimLeft(Tail(s)) ELSE s

RECURSIVE TrimRight(_)
TrimRight(s) ==
    IF s # <<>> /\ s[Len(s)] \in JsonSpace
    THEN TrimRight(SubSeq(s, 1, Len(s) - 1)) ELSE s

\* strings.TrimSpace
TrimSpace(s) == TrimRight(TrimLeft(s))

\* strings.HasPrefix(s, c) and strings.HasSuffix(s, c), c one character
HasPrefix(s, c) == s # <<>> /\ s[1] = c

HasSuffix(s, c) == s # <<>> /\ s[Len(s)] = c

\* strings.ReplaceAll(s, "\\" + c, c): left to right, without overlap
RECURSIVE Unescape(_, _)
Unescape(s, c) ==
    IF s = <<>> THEN <<>>
    ELSE IF Len(s) >= 2 /\ s[1] = Backslash /\ s[2] = c
         THEN <<c>> \o Unescape(SubSeq(s, 3, Len(s)), c)
         ELSE <<s[1]>> \o Unescape(Tail(s), c)

-----------------------------------------------------------------------------
(* ReportIssueRequest.GetNetworkCalls, internal/models/ticket.go 56-106.   *)

NotParsed == [kind |-> "none", err |-> FALSE, calls |-> <<>>]

\* ReportIssue is not running
NoHandler ==
    [ form |-> [ valid |-> TRUE, issueLen |-> 0, descLen |-> 0, emailLen |-> 0,
                 leadLen |-> 0, productLen |-> 0, pageURLLen |-> 0 ],
      file |-> FALSE, s3 |-> FALSE, uploads |-> <<>>,
      imageURL |-> [kind |-> "empty", len |-> 0],
      path |-> "none",
      payload |-> [ failedNetworkCalls |-> [t |-> "none", v |-> <<>>],
                    rawNetworkCallsJSON |-> [present |-> FALSE, str |-> <<>>] ],
      tickets |-> 0, status |-> 0 ]

NoOrigin == [form |-> "none", layout |-> "none", calls |-> <<>>]

\* lines 72-76: the surrounding quotes are there
Quoted(input) ==
    \/ HasPrefix(input, Quote) /\ HasSuffix(input, Quote)
    \/ HasPrefix(input, "'") /\ HasSuffix(input, "'")

\* lines 71-82: input after the quotes are removed and \" and \\ replaced
CleanedInput(s) ==
    LET trimmed  == TrimSpace(s)
        unquoted == IF Quoted(trimmed) THEN SubSeq(trimmed, 2, Len(trimmed) - 1)
                    ELSE trimmed
    IN  Unescape(Unescape(unquoted, Quote), Backslash)

\* line 75: input[1 : len(input)-1] panics when input is one quote character
StripPanics(s) == Quoted(TrimSpace(s)) /\ Len(TrimSpace(s)) < 2

\* lines 91-97: the text the third attempt decodes
DoubleDecodeInput(s) == CleanedInput(s)

\* lines 93-97: the decoded string, if there is one, is decoded into calls
ThirdAttemptResult(second, decoded, third) ==
    IF ~decoded.err /\ ~third.err
    THEN [kind |-> "returned", err |-> FALSE, calls |-> third.calls]
    ELSE [ kind |-> "returned", err |-> TRUE,
           calls |-> IF decoded.err THEN second.calls ELSE third.calls ]

ThirdAttempt(second, decoded) ==
    ThirdAttemptResult(second, decoded, UnmarshalCalls(decoded.str, second.calls))

\* lines 84-100: after the second attempt
AfterSecondAttempt(s, second) ==
    IF ~second.err THEN [kind |-> "returned", err |-> FALSE, calls |-> second.calls]
    ELSE ThirdAttempt(second, UnmarshalString(DoubleDecodeInput(s)))

\* lines 65-87: after the first attempt
AfterFirstAttempt(s, first) ==
    IF ~first.err THEN [kind |-> "returned", err |-> FALSE, calls |-> first.calls]
    ELSE IF StripPanics(s) THEN [kind |-> "panicked", err |-> FALSE, calls |-> <<>>]
    ELSE AfterSecondAttempt(s, UnmarshalCalls(CleanedInput(s), first.calls))

GetNetworkCalls(s) ==
    IF s = <<>> THEN [kind |-> "returned", err |-> FALSE, calls |-> <<>>]
    ELSE AfterFirstAttempt(s, UnmarshalCalls(s, <<>>))

-----------------------------------------------------------------------------
(* The requests and configurations explored.                               *)

\* len of the issue title
TitleLen == 12

\* len of a short field
SmallLen == 40

\* len of a long field: more than any section's limit
BigLen == 50000

\* len of a description that leaves about 2000 characters to the sections
NearLen == 29800

\* len of a description that leaves less than the payload wrapper needs
TightLen == 30900

\* len of a description that is itself longer than the ceiling
OverLen == 33000

BaseRequest ==
    [ hasIssue |-> TRUE, issueLen |-> TitleLen, descLen |-> SmallLen, emailLen |-> 0, leadLen |-> 0,
      productLen |-> 0, url |-> [isString |-> FALSE, len |-> 0], reqURLLen |-> 0,
      image |-> [kind |-> "empty", len |-> 0],
      nc |-> [kind |-> "absent", len |-> 0],
      headersLen |-> 0, resp |-> [kind |-> "empty", len |-> 0],
      payExtra |-> 0, payErr |-> FALSE ]

\* requests that differ in how much each section holds
SizeRequests ==
    { [ BaseRequest EXCEPT !.descLen = d, !.nc = n, !.headersLen = h, !.resp = rs,
                           !.payExtra = e ] :
        d \in {SmallLen, NearLen, TightLen, OverLen},
        n \in { [kind |-> "absent", len |-> 0], [kind |-> "string", len |-> SmallLen],
                [kind |-> "string", len |-> BigLen], [kind |-> "struct", len |-> BigLen] },
        h \in {0, SmallLen, BigLen},
        rs \in { [kind |-> "empty", len |-> 0], [kind |-> "json", len |-> SmallLen],
                 [kind |-> "json", len |-> BigLen],
                 [kind |-> "unmarshalable", len |-> BigLen] },
        e \in {0, BigLen} }

\* requests that differ in which fields are there
FieldRequests ==
    { [ BaseRequest EXCEPT !.descLen = d, !.emailLen = m[1], !.leadLen = m[2],
                           !.productLen = m[3], !.url = u, !.reqURLLen = ru,
                           !.image = im, !.nc = n,
                           !.payErr = (n.kind = "unmarshalable") ] :
        d \in {0, SmallLen},
        m \in { <<0, 0, 0>>, <<SmallLen, 0, 0>>, <<SmallLen, TitleLen, SmallLen>> },
        u \in { [isString |-> FALSE, len |-> 0], [isString |-> TRUE, len |-> 0],
                [isString |-> TRUE, len |-> SmallLen] },
        ru \in {0, SmallLen},
        im \in { [kind |-> "empty", len |-> 0], [kind |-> "None", len |-> 4],
                 [kind |-> "null", len |-> 4], [kind |-> "http", len |-> SmallLen],
                 [kind |-> "text", len |-> TitleLen] },
        n \in { [kind |-> "absent", len |-> 0], [kind |-> "nil", len |-> 0],
                [kind |-> "unmarshalable", len |-> SmallLen] } }

\* requests whose Payload is an empty map, with and without the other parts
EmptyPayloadRequests ==
    { [ BaseRequest EXCEPT !.hasIssue = FALSE, !.issueLen = nilVerbLength,
                           !.descLen = 0, !.headersLen = h, !.resp = rs,
                           !.image = im, !.reqURLLen = ru ] :
        h \in {0, SmallLen},
        rs \in { [kind |-> "empty", len |-> 0], [kind |-> "json", len |-> SmallLen] },
        im \in { [kind |-> "empty", len |-> 0], [kind |-> "http", len |-> SmallLen] },
        ru \in {0, SmallLen} }

\* requests with every field there, a long description and long sections
FullRequests ==
    { [ BaseRequest EXCEPT !.descLen = NearLen, !.emailLen = SmallLen,
                           !.leadLen = TitleLen, !.productLen = SmallLen,
                           !.url = [isString |-> TRUE, len |-> SmallLen],
                           !.reqURLLen = SmallLen, !.image = im,
                           !.nc = [kind |-> "string", len |-> BigLen],
                           !.headersLen = BigLen,
                           !.resp = [kind |-> "json", len |-> BigLen],
                           !.payExtra = BigLen ] :
        im \in { [kind |-> "http", len |-> SmallLen],
                 [kind |-> "text", len |-> TitleLen] } }

Requests == SizeRequests \cup FieldRequests \cup EmptyPayloadRequests \cup FullRequests

Rosters == { <<>>, <<"u1">>, <<"u1", "u2">> }

NoSections == [ n \in SectionNames |-> NoSection ]

NoLimits ==
    [ remainingChars |-> 0, networkCallsLimit |-> 0, headersLimit |-> 0,
      responseLimit |-> 0, payloadLimit |-> 0 ]

NoRequest == BaseRequest

\* The frame of one execution of CreateTicket: its parameters, its locals, and
\* the history of what it called and returned.
Frame ==
    [ req |-> req, pc |-> pc, description |-> description,
      essentialLength |-> essentialLength, limits |-> limits, sections |-> sections,
      wasTruncated |-> wasTruncated, truncatedContent |-> truncatedContent,
      preGuard |-> preGuard, assignee |-> assignee, issueTypeID |-> issueTypeID,
      calls |-> calls, ctxCancelled |-> ctxCancelled, result |-> result ]

\* the frame of CreateTicket as it is entered with the request r (lines 50-57)
EntryFrame(r) ==
    [ req |-> r, pc |-> "start", description |-> <<>>, essentialLength |-> 0,
      limits |-> NoLimits, sections |-> NoSections, wasTruncated |-> FALSE,
      truncatedContent |-> Lit("additional"), preGuard |-> <<>>, assignee |-> "",
      issueTypeID |-> "", calls |-> <<>>, ctxCancelled |-> FALSE,
      result |-> NoResult ]

\* no second execution
NoPeer == [ EntryFrame(NoRequest) EXCEPT !.pc = "absent" ]

-----------------------------------------------------------------------------
(* CreateTicket, called once.                                              *)

Init ==
    /\ req \in Requests
    /\ mongoConfigured \in BOOLEAN
    /\ supportTeam \in Rosters
    /\ pc = "start"
    /\ description = <<>>
    /\ essentialLength = 0
    /\ limits = NoLimits
    /\ sections = NoSections
    /\ wasTruncated = FALSE
    /\ truncatedContent = Lit("additional")
    /\ preGuard = <<>>
    /\ assignee = ""
    /\ issueTypeID = ""
    /\ calls = <<>>
    /\ ctxCancelled = FALSE
    /\ result = NoResult
    /\ fnc = <<>>
    /\ origin = NoOrigin
    /\ parsed = NotParsed
    /\ handler = NoHandler
    /\ peer = NoPeer

Next ==
    \/ BuildEssential
    \/ AllocateBudget
    \/ RenderNetworkCalls
    \/ RenderHeaders
    \/ RenderResponse
    \/ RenderPayload
    \/ FinalCheck
    \/ SelectAssignee
    \/ LookupIssueType
    \/ CreateIssue
    \/ AddComment
    \/ SaveTicket
    \/ ReturnResponse
    \/ ReturnError
    \/ CancelContext

Spec == Init /\ [][Next]_vars

-----------------------------------------------------------------------------
(* The budget step alone, for essential lengths around the smallest one,   *)
(* around 30000 and around the ceiling.                                    *)

\* how far around each of these the essential lengths go
BudgetSpan == 30

EssentialLengths ==
    (RopeLen(timestamp) + LitLen["h2Summary"] + LitLen["nn"]
        .. RopeLen(timestamp) + LitLen["h2Summary"] + LitLen["nn"] + BudgetSpan)
    \cup (30000 - BudgetSpan .. 30000 + BudgetSpan)
    \cup (maxJiraDescLength - BudgetSpan .. maxJiraDescLength + BudgetSpan)

InitBudget ==
    /\ req = NoRequest
    /\ mongoConfigured = FALSE
    /\ supportTeam = <<>>
    /\ pc = "budget"
    /\ description = <<>>
    /\ essentialLength \in EssentialLengths
    /\ limits = NoLimits
    /\ sections = NoSections
    /\ wasTruncated = FALSE
    /\ truncatedContent = Lit("additional")
    /\ preGuard = <<>>
    /\ assignee = ""
    /\ issueTypeID = ""
    /\ calls = <<>>
    /\ ctxCancelled = FALSE
    /\ result = NoResult
    /\ fnc = <<>>
    /\ origin = NoOrigin
    /\ parsed = NotParsed
    /\ handler = NoHandler
    /\ peer = NoPeer

NextBudget == AllocateBudget

SpecBudget == InitBudget /\ [][NextBudget]_vars

-----------------------------------------------------------------------------
(* GetNetworkCalls, called once, on the encodings of a list of calls that  *)
(* the clients produce and on strings that are no JSON.                    *)

\* the most characters of a PageURL
MaxValueLen == 2

\* the most calls of a list
MaxCalls == 1

\* the characters of a PageURL: a letter, a quote, a backslash
ValueChars == {"a", Quote, Backslash}

RECURSIVE SeqsUpTo(_, _)
SeqsUpTo(S, n) ==
    IF n = 0 THEN {<<>>}
    ELSE LET shorter == SeqsUpTo(S, n - 1) IN
         shorter \cup { Append(q, x) : q \in shorter, x \in S }

CallLists ==
    SeqsUpTo({ [PageURL |-> v] : v \in SeqsUpTo(ValueChars, MaxValueLen) }, MaxCalls)

\* the characters of s with every quote and backslash escaped
RECURSIVE EscapeQuotes(_)
EscapeQuotes(s) ==
    IF s = <<>> THEN <<>>
    ELSE (IF s[1] \in {Quote, Backslash} THEN <<Backslash, s[1]>> ELSE <<s[1]>>)
         \o EscapeQuotes(Tail(s))

\* the characters of s as JSON.stringify and json.Marshal write them in a
\* string literal: quotes, backslashes and the newline escaped
RECURSIVE EscapeJson(_)
EscapeJson(s) ==
    IF s = <<>> THEN <<>>
    ELSE (CASE s[1] \in {Quote, Backslash} -> <<Backslash, s[1]>>
            [] s[1] = Newline -> <<Backslash, "n">>
            [] OTHER -> <<s[1]>>)
         \o EscapeJson(Tail(s))

\* one call as a JSON object
CallText(c) ==
    <<"{", Quote>> \o pageUrlKey \o <<Quote, ":", Quote>> \o EscapeJson(c.PageURL)
    \o <<Quote, "}">>

RECURSIVE JoinCalls(_, _)
JoinCalls(cs, sep) ==
    IF cs = <<>> THEN <<>>
    ELSE IF Len(cs) = 1 THEN CallText(cs[1])
    ELSE CallText(cs[1]) \o <<",">> \o sep \o JoinCalls(Tail(cs), sep)

\* the list as a JSON array: "compact", or "lines" with a newline after "[",
\* between the elements and before "]"
ArrayText(cs, layout) ==
    LET sep == IF layout = "lines" THEN <<Newline>> ELSE <<>> IN
    <<"[">> \o sep \o JoinCalls(cs, sep) \o sep \o <<"]">>

\* the three encodings of the array the field arrives in
Encoded(text, form) ==
    CASE form = "plain" -> text
      [] form = "quoted" -> <<Quote>> \o EscapeQuotes(text) \o <<Quote>>
      [] form = "double" -> <<Quote>> \o EscapeJson(text) \o <<Quote>>

\* strings that are no JSON
Garbage ==
    { <<"a">>, <<"a", "a">>, <<Quote>>, <<"'">>, <<"[">>, <<"[", "{">>,
      <<"'", "[", Quote, "a", Quote, "]", "'">> }

InitParse ==
    /\ req = NoRequest
    /\ mongoConfigured = FALSE
    /\ supportTeam = <<>>
    /\ pc = "parse"
    /\ description = <<>>
    /\ essentialLength = 0
    /\ limits = NoLimits
    /\ sections = NoSections
    /\ wasTruncated = FALSE
    /\ truncatedContent = Lit("additional")
    /\ preGuard = <<>>
    /\ assignee = ""
    /\ issueTypeID = ""
    /\ calls = <<>>
    /\ ctxCancelled = FALSE
    /\ result = NoResult
    /\ parsed = NotParsed
    /\ handler = NoHandler
    /\ peer = NoPeer
    /\ \/ \E cs \in CallLists, layout \in {"compact", "lines"},
             form \in {"plain", "quoted", "double"} :
             /\ origin = [form |-> form, layout |-> layout, calls |-> cs]
             /\ fnc = Encoded(ArrayText(cs, layout), form)
       \/ \E g \in Garbage :
             /\ origin = [form |-> "garbage", layout |-> "none", calls |-> <<>>]
             /\ fnc = g

\* networkCalls, err := req.GetNetworkCalls()
ParseNetworkCalls ==
    /\ pc = "parse"
    /\ parsed' = GetNetworkCalls(fnc)
    /\ pc' = "parsed"
    /\ UNCHANGED <<fnc, origin, handler, peer>>
    /\ UNCHANGED ticketVars

NextParse == ParseNetworkCalls

SpecParse == InitParse /\ [][NextParse]_vars

-----------------------------------------------------------------------------
(* ReportHandler.ReportIssue, internal/handlers/report.go 48-222.  The     *)
(* handler record holds                                                    *)
(*   form      the bound ReportIssueRequest but for FailedNetworkCalls     *)
(*             (fnc): the len of each field, and whether binding and       *)
(*             validation accept it                                        *)
(*   file      c.FormFile("image0") returned a file                        *)
(*   s3        h.s3Service != nil                                          *)
(*   uploads   history: the calls of UploadFile, in order                  *)
(*   imageURL  local, as req.image describes an image reference            *)
(*   path      which TicketRequest was built: "generic" (lines 142-159) or *)
(*             "original" (lines 181-199)                                  *)
(*   payload   what that request's Payload holds at failedNetworkCalls and *)
(*             at rawNetworkCallsJSON                                      *)
(*   tickets   history: how often CreateTicket was called                  *)
(*   status    the HTTP status written, 0 before                           *)

\* len of json.MarshalIndent of map[string]string{"Content-Type": "multipart/form-data"}
contentTypeHeadersLength == 43

\* len of json.MarshalIndent of map[string]interface{}{"status": "reported"}
reportedResponseLength == 26

\* len of json.Marshal of a NetworkCall whose strings are empty
networkCallCompactLength == 151

\* len of the same under MarshalIndent, as an element of an array that is a
\* value of the payload (indented by 4)
networkCallIndentedLength == 255

\* a JSON value that is a []models.NetworkCall; isNil: the nil slice that
\* GetNetworkCalls returns for an empty field, which marshals to null
CallsValue(cs, isNil) == [t |-> IF isNil THEN "nilCalls" ELSE "calls", v |-> cs]

RECURSIVE SumEscapedPageURLs(_)
SumEscapedPageURLs(cs) ==
    IF cs = <<>> THEN 0
    ELSE Len(EscapeJson(cs[1].PageURL)) + SumEscapedPageURLs(Tail(cs))

RECURSIVE CompactLen(_)
RECURSIVE CompactElements(_)
RECURSIVE CompactMembers(_)

\* len(json.Marshal(v))
CompactLen(v) ==
    CASE v.t = "nilCalls" -> 4
      [] v.t = "calls" ->
            IF v.v = <<>> THEN 2
            ELSE 2 + Len(v.v) * networkCallCompactLength + SumEscapedPageURLs(v.v)
                 + (Len(v.v) - 1)
      [] v.t = "str" -> 2 + Len(EscapeJson(v.v))
      [] v.t = "arr" -> IF v.v = <<>> THEN 2 ELSE 2 + CompactElements(v.v) + (Len(v.v) - 1)
      [] v.t = "obj" -> IF v.v = <<>> THEN 2 ELSE 2 + CompactMembers(v.v) + (Len(v.v) - 1)

CompactElements(es) ==
    IF es = <<>> THEN 0 ELSE CompactLen(es[1]) + CompactElements(Tail(es))

\* "key":value, for each member (no text explored repeats a key)
CompactMembers(ms) ==
    IF ms = <<>> THEN 0
    ELSE 2 + Len(EscapeJson(ms[1].key)) + 1 + CompactLen(ms[1].val)
         + CompactMembers(Tail(ms))

RECURSIVE IndentedLen(_, _)
RECURSIVE IndentedElements(_, _)
RECURSIVE IndentedMembers(_, _)

\* len of v under json.MarshalIndent(_, "", "  ") when v sits at depth d (a
\* []models.NetworkCall is only ever a value of the payload, d = 1)
IndentedLen(v, d) ==
    CASE v.t = "nilCalls" -> 4
      [] v.t = "calls" ->
            IF v.v = <<>> THEN 2
            ELSE 2 + Len(v.v) * networkCallIndentedLength
                 + SumEscapedPageURLs(v.v) + 2 * (Len(v.v) - 1) + 1 + 2 * d + 1
      [] v.t = "str" -> 2 + Len(EscapeJson(v.v))
      [] v.t = "arr" ->
            IF v.v = <<>> THEN 2
            ELSE 2 + IndentedElements(v.v, d + 1) + 2 * (Len(v.v) - 1) + 1 + 2 * d + 1
      [] v.t = "obj" ->
            IF v.v = <<>> THEN 2
            ELSE 2 + IndentedMembers(v.v, d + 1) + 2 * (Len(v.v) - 1) + 1 + 2 * d + 1

IndentedElements(es, d) ==
    IF es = <<>> THEN 0
    ELSE 2 * d + IndentedLen(es[1], d) + IndentedElements(Tail(es), d)

IndentedMembers(ms, d) ==
    IF ms = <<>> THEN 0
    ELSE 2 * d + 2 + Len(EscapeJson(ms[1].key)) + 2 + IndentedLen(ms[1].val, d)
         + IndentedMembers(Tail(ms), d)

\* req.Payload["failedNetworkCalls"] as CreateTicket reads it: a Go string, or
\* a value it hands to json.Marshal
NetworkCallsField(v) ==
    IF v.t = "str" THEN [kind |-> "string", len |-> Len(v.v)]
    ELSE [kind |-> "struct", len |-> CompactLen(v)]

\* what a key the handler always sets adds to the payload's JSON when its
\* string is empty: `  "key": ""` and the ",\n" before or after it
EmptyFieldLen(keyLen, valueLen) ==
    IF valueLen = 0 THEN JsonEntryLen(keyLen, 2) + 2 ELSE 0

\* no rawNetworkCallsJSON in the payload
NoRaw == [present |-> FALSE, str |-> <<>>]

\* the *models.TicketRequest of lines 142-159 (raw absent) and 181-199
TicketRequestOf(h, v, raw) ==
    [ hasIssue |-> TRUE, issueLen |-> h.form.issueLen, descLen |-> h.form.descLen,
      emailLen |-> h.form.emailLen, leadLen |-> h.form.leadLen,
      productLen |-> h.form.productLen,
      url |-> [isString |-> FALSE, len |-> 0], reqURLLen |-> h.form.pageURLLen,
      image |-> h.imageURL,
      nc |-> NetworkCallsField(v),
      headersLen |-> contentTypeHeadersLength,
      resp |-> [kind |-> "json", len |-> reportedResponseLength],
      payExtra |-> EmptyFieldLen(9, h.form.emailLen) + EmptyFieldLen(6, h.form.leadLen)
                   + EmptyFieldLen(7, h.form.productLen)
                   + (IF v.t = "str" THEN Len(EscapeJson(v.v)) - Len(v.v)
                      ELSE IndentedLen(v, 1) - CompactLen(v))
                   + (IF raw.present
                      THEN JsonEntryLen(19, 2 + Len(EscapeJson(raw.str))) + 2
                      ELSE 0),
      payErr |-> FALSE ]

\* lines 52-77: ShouldBind and validate.Struct; a form they refuse is answered
\* with 400
BindRequest ==
    /\ pc = "bind"
    /\ IF handler.form.valid
       THEN /\ pc' = "upload"
            /\ UNCHANGED handler
       ELSE /\ pc' = "responded"
            /\ handler' = [handler EXCEPT !.status = 400]
    /\ UNCHANGED <<fnc, origin, parsed, peer>>
    /\ UNCHANGED ticketVars

\* a variant: the upload tried again when it fails
AfterUploadMutRetry(ok) == IF ok THEN "parse" ELSE "upload"

\* where ReportIssue goes after UploadFile, whatever it answered (lines 110-116)
AfterUpload(ok) == "parse"

\* lines 79-124: the screenshot; h.s3Service.UploadFile(ctx, file), whose URL
\* is a presigned https link
UploadScreenshot ==
    /\ pc = "upload"
    /\ IF handler.file /\ handler.s3
       THEN \E ok \in BOOLEAN :
              /\ handler' = [handler EXCEPT
                    !.uploads = Append(@, [ok |-> ok]),
                    !.imageURL = IF ok THEN [kind |-> "http", len |-> SmallLen]
                                 ELSE [kind |-> "empty", len |-> 0]]
              /\ pc' = AfterUpload(ok)
       ELSE /\ handler' = [handler EXCEPT
                    !.imageURL = IF handler.file
                                 THEN [kind |-> "http", len |-> 35]
                                 ELSE [kind |-> "empty", len |-> 0]]
            /\ pc' = "parse"
    /\ UNCHANGED <<fnc, origin, parsed, peer>>
    /\ UNCHANGED ticketVars

\* line 137: json.Unmarshal([]byte(req.FailedNetworkCalls), &rawNetworkData)
\* succeeds
ParsesAsGenericJSON(s) == ParseJSON(s).ok

\* lines 128-174: GetNetworkCalls failed and the field is some JSON value
TakesGenericPath(res, s) == res.err /\ ParsesAsGenericJSON(s)

\* the payload's failedNetworkCalls and rawNetworkCallsJSON: lines 150 (the
\* generic value, no raw string) and 177, 189-190 (the calls, or the empty
\* list after a failure, and the raw string)
HandlerPayload(res, s) ==
    IF TakesGenericPath(res, s)
    THEN [ failedNetworkCalls |-> ParseJSON(s).val, rawNetworkCallsJSON |-> NoRaw ]
    ELSE [ failedNetworkCalls |->
               IF res.err THEN CallsValue(<<>>, FALSE)
               ELSE CallsValue(res.calls, s = <<>>),
           rawNetworkCallsJSON |-> [present |-> TRUE, str |-> s] ]

\* lines 128-211: the TicketRequest is built and CreateTicket is called, at
\* line 162 or at line 211
CallCreateTicket ==
    /\ pc = "parsed"
    /\ parsed.kind = "returned"
    /\ handler' = [handler EXCEPT
          !.path = IF TakesGenericPath(parsed, fnc) THEN "generic" ELSE "original",
          !.payload = HandlerPayload(parsed, fnc),
          !.tickets = @ + 1]
    /\ req' = TicketRequestOf(handler, HandlerPayload(parsed, fnc).failedNetworkCalls,
                              HandlerPayload(parsed, fnc).rawNetworkCallsJSON)
    /\ pc' = "start"
    /\ UNCHANGED <<mongoConfigured, supportTeam, description, essentialLength, limits,
                   sections, wasTruncated, truncatedContent, preGuard, assignee,
                   issueTypeID, calls, ctxCancelled, result>>
    /\ UNCHANGED <<fnc, origin, parsed, peer>>

\* lines 163-173 and 212-221: 500 for an error of CreateTicket, 201 otherwise
Respond ==
    /\ pc = "done"
    /\ handler.tickets > 0
    /\ handler' = [handler EXCEPT
          !.status = IF result.kind = "error" THEN 500 ELSE 201]
    /\ pc' = "responded"
    /\ UNCHANGED <<fnc, origin, parsed, peer>>
    /\ UNCHANGED ticketVars

\* cmd/api/main.go 94, gin.Recovery(): a panic under the handler (in
\* GetNetworkCalls or in CreateTicket) ends the request with 500
RecoverPanic ==
    /\ \/ pc = "parsed" /\ parsed.kind = "panicked"
       \/ pc = "panicked" /\ handler.tickets > 0
    /\ handler' = [handler EXCEPT !.status = 500]
    /\ pc' = "responded"
    /\ UNCHANGED <<fnc, origin, parsed, peer>>
    /\ UNCHANGED ticketVars

-----------------------------------------------------------------------------
(* ReportIssue, called once, on forms of several sizes, with and without a *)
(* screenshot and an uploader, and on the failedNetworkCalls strings below. *)

ReportCallLists == { <<>>, << [PageURL |-> <<"a">>] >> }

\* failedNetworkCalls: absent, a list of calls in each encoding, a JSON value
\* that is no list, and strings that are no JSON
ReportTexts ==
    { [ text |-> <<>>, origin |-> [form |-> "empty", layout |-> "none", calls |-> <<>>] ],
      [ text |-> <<"{", "}">>,
        origin |-> [form |-> "object", layout |-> "none", calls |-> <<>>] ] }
    \cup { [ text |-> Encoded(ArrayText(cs, layout), form),
             origin |-> [form |-> form, layout |-> layout, calls |-> cs] ] :
           cs \in ReportCallLists, layout \in {"compact", "lines"},
           form \in {"plain", "quoted", "double"} }
    \cup { [ text |-> g, origin |-> [form |-> "garbage", layout |-> "none", calls |-> <<>>] ] :
           g \in Garbage }

ReportForms ==
    { [ valid |-> TRUE, issueLen |-> TitleLen, descLen |-> d, emailLen |-> m,
        leadLen |-> 0, productLen |-> 0, pageURLLen |-> SmallLen ] :
        d \in {SmallLen, NearLen, OverLen}, m \in {0, SmallLen} }
    \cup { [ valid |-> FALSE, issueLen |-> 0, descLen |-> SmallLen, emailLen |-> 0,
             leadLen |-> 0, productLen |-> 0, pageURLLen |-> 0 ] }

InitReport ==
    /\ req = NoRequest
    /\ mongoConfigured \in BOOLEAN
    /\ supportTeam = <<"u1">>
    /\ pc = "bind"
    /\ description = <<>>
    /\ essentialLength = 0
    /\ limits = NoLimits
    /\ sections = NoSections
    /\ wasTruncated = FALSE
    /\ truncatedContent = Lit("additional")
    /\ preGuard = <<>>
    /\ assignee = ""
    /\ issueTypeID = ""
    /\ calls = <<>>
    /\ ctxCancelled = FALSE
    /\ result = NoResult
    /\ parsed = NotParsed
    /\ \E x \in ReportTexts : fnc = x.text /\ origin = x.origin
    /\ \E f \in ReportForms, file \in BOOLEAN, s3 \in BOOLEAN :
          handler = [NoHandler EXCEPT !.form = f, !.file = file, !.s3 = s3]
    /\ peer = NoPeer

NextReport ==
    \/ BindRequest
    \/ UploadScreenshot
    \/ ParseNetworkCalls
    \/ CallCreateTicket
    \/ BuildEssential
    \/ AllocateBudget
    \/ RenderNetworkCalls
    \/ RenderHeaders
    \/ RenderResponse
    \/ RenderPayload
    \/ FinalCheck
    \/ SelectAssignee
    \/ LookupIssueType
    \/ CreateIssue
    \/ AddComment
    \/ SaveTicket
    \/ ReturnResponse
    \/ ReturnError
    \/ Respond
    \/ RecoverPanic

SpecReport == InitReport /\ [][NextReport]_vars

-----------------------------------------------------------------------------
(* Two requests served at once.  gin serves every request on a goroutine   *)
(* of its own, and both call CreateTicket on the one *JiraService that     *)
(* main builds.  The variables req .. result are the frame of the          *)
(* goroutine that runs, peer is the frame of the one that waits; the       *)
(* scheduler may switch between them after any step.  s.supportTeam and    *)
(* s.mongoService belong to the service and are not part of a frame.  A    *)
(* panic of one goroutine is recovered by gin.Recovery and leaves the      *)
(* other running.                                                          *)

\* a variant: truncatedContent a field of the service, shared by the two
ResumeMutSharedBuilder(own, current) ==
    [ own EXCEPT !.truncatedContent = current.truncatedContent ]

\* The frame a goroutine resumes with: its own, whatever the other did in the
\* meantime (lines 55-57 and every := of CreateTicket declare locals).
Resume(own, current) == own

\* the goroutine that waits is scheduled
Switch ==
    /\ peer.pc \notin Ended \cup {"absent"}
    /\ peer' = Frame
    /\ req' = Resume(peer, Frame).req
    /\ pc' = Resume(peer, Frame).pc
    /\ description' = Resume(peer, Frame).description
    /\ essentialLength' = Resume(peer, Frame).essentialLength
    /\ limits' = Resume(peer, Frame).limits
    /\ sections' = Resume(peer, Frame).sections
    /\ wasTruncated' = Resume(peer, Frame).wasTruncated
    /\ truncatedContent' = Resume(peer, Frame).truncatedContent
    /\ preGuard' = Resume(peer, Frame).preGuard
    /\ assignee' = Resume(peer, Frame).assignee
    /\ issueTypeID' = Resume(peer, Frame).issueTypeID
    /\ calls' = Resume(peer, Frame).calls
    /\ ctxCancelled' = Resume(peer, Frame).ctxCancelled
    /\ result' = Resume(peer, Frame).result
    /\ UNCHANGED <<mongoConfigured, supportTeam, fnc, origin, parsed, handler>>

\* a short report, one whose network calls are cut, one that the final check
\* cuts, and one whose description alone is longer than the ceiling
PairRequests ==
    { BaseRequest,
      [ BaseRequest EXCEPT !.nc = [kind |-> "string", len |-> BigLen] ],
      [ BaseRequest EXCEPT !.descLen = NearLen,
                           !.nc = [kind |-> "string", len |-> BigLen],
                           !.headersLen = BigLen,
                           !.resp = [kind |-> "json", len |-> BigLen],
                           !.payExtra = BigLen ],
      [ BaseRequest EXCEPT !.descLen = OverLen ] }

InitPair ==
    /\ req \in PairRequests
    /\ \E r \in PairRequests : peer = EntryFrame(r)
    /\ mongoConfigured \in BOOLEAN
    /\ supportTeam = <<"u1", "u2">>
    /\ pc = "start"
    /\ description = <<>>
    /\ essentialLength = 0
    /\ limits = NoLimits
    /\ sections = NoSections
    /\ wasTruncated = FALSE
    /\ truncatedContent = Lit("additional")
    /\ preGuard = <<>>
    /\ assignee = ""
    /\ issueTypeID = ""
    /\ calls = <<>>
    /\ ctxCancelled = FALSE
    /\ result = NoResult
    /\ fnc = <<>>
    /\ origin = NoOrigin
    /\ parsed = NotParsed
    /\ handler = NoHandler

NextPair ==
    \/ BuildEssential
    \/ AllocateBudget
    \/ RenderNetworkCalls
    \/ RenderHeaders
    \/ RenderResponse
    \/ RenderPayload
    \/ FinalCheck
    \/ SelectAssignee
    \/ LookupIssueType
    \/ CreateIssue
    \/ AddComment
    \/ SaveTicket
    \/ ReturnResponse
    \/ ReturnError
    \/ Switch

SpecPair == InitPair /\ [][NextPair]_vars

-----------------------------------------------------------------------------
(* CreateTicket up to the final check, on requests whose sections are of   *)
(* lengths around the places where the code decides to cut and where it    *)
(* cuts.                                                                   *)

\* len(sectionStart) + len(sectionEnd) of a section
WrapperLength(name) ==
    CASE name = "networkCalls" -> LitLen["ncStart"] + LitLen["sectionEnd"]
      [] name = "headers" -> LitLen["headersStart"] + LitLen["sectionEnd"]
      [] name = "response" -> LitLen["responseStart"] + LitLen["sectionEnd"]
      [] name = "payload" -> LitLen["payloadStart"] + LitLen["sectionEnd"]

\* lengths around u, u-20, u-30 and u-50
EdgeLens(u) ==
    { n \in {u - 51, u - 50, u - 31, u - 30, u - 21, u - 20, u - 19, u, u + 1} : n > 0 }

\* the request base with its three first sections of lengths around the edges
\* that the limits lim set
SectionEdgeRequests(base, lim) ==
    { [ base EXCEPT !.nc = [kind |-> "string", len |-> n], !.headersLen = h,
                    !.resp = [kind |-> k, len |-> rs] ] :
        n \in EdgeLens(lim.networkCallsLimit - WrapperLength("networkCalls")),
        h \in EdgeLens(lim.headersLimit - WrapperLength("headers")),
        k \in {"json", "unmarshalable"},
        rs \in EdgeLens(lim.responseLimit - WrapperLength("response")) }

\* the request base with other keys in its payload, so that the payload's
\* rendering (JSON, or %v when it cannot be marshalled) is around the edges
PayloadEdgeRequests(base, lim) ==
    { [ base EXCEPT !.payErr = e, !.payExtra = n - PayloadJSONLen(base) ] :
        e \in {FALSE},
        n \in EdgeLens(lim.payloadLimit - WrapperLength("payload")) }
    \cup { [ base EXCEPT !.payErr = e, !.payExtra = n - PayloadStrLen(base) ] :
             e \in {TRUE},
             n \in EdgeLens(lim.payloadLimit - WrapperLength("payload")) }

EdgeRequestsFor(base) ==
    SectionEdgeRequests(base, Budget(RopeLen(EssentialContent(base))))
    \cup PayloadEdgeRequests(base, Budget(RopeLen(EssentialContent(base))))

EdgeRequests ==
    { r \in UNION { EdgeRequestsFor([BaseRequest EXCEPT !.descLen = d]) :
                      d \in {SmallLen, NearLen, TightLen} } :
        r.payExtra >= 0 }

InitEdge ==
    /\ req \in EdgeRequests
    /\ mongoConfigured = FALSE
    /\ supportTeam = <<>>
    /\ pc = "start"
    /\ description = <<>>
    /\ essentialLength = 0
    /\ limits = NoLimits
    /\ sections = NoSections
    /\ wasTruncated = FALSE
    /\ truncatedContent = Lit("additional")
    /\ preGuard = <<>>
    /\ assignee = ""
    /\ issueTypeID = ""
    /\ calls = <<>>
    /\ ctxCancelled = FALSE
    /\ result = NoResult
    /\ fnc = <<>>
    /\ origin = NoOrigin
    /\ parsed = NotParsed
    /\ handler = NoHandler
    /\ peer = NoPeer

NextEdge ==
    \/ BuildEssential
    \/ AllocateBudget
    \/ RenderNetworkCalls
    \/ RenderHeaders
    \/ RenderResponse
    \/ RenderPayload
    \/ FinalCheck

SpecEdge == InitEdge /\ [][NextEdge]_vars

-----------------------------------------------------------------------------
(* Properties.                                                             *)

\* the budget has been computed
BudgetDone == pc \notin {"start", "budget", "parse", "parsed", "bind", "upload"}

\* the final check has run
GuardDone ==
    pc \in {"assign", "lookup", "create", "comment", "save", "return", "fail", "done"}

CallsOf(op) == { i \in 1..Len(calls) : calls[i].op = op }

CreateSucceeded == \E i \in CallsOf("Create") : calls[i].ok

CreateFailed == \E i \in CallsOf("Create") : ~calls[i].ok

\* C1: the description handed to Issue.Create is never longer than
\* maxJiraDescLength, whatever the request.
C1_DescriptionWithinCeiling ==
    \A i \in CallsOf("Create") :
        RopeLen(calls[i].Description) <= maxJiraDescLength

\* Issue.Create was called with a description the final check had to cut.
C1_Witness ==
    \E i \in CallsOf("Create") :
        /\ GuardFires(preGuard)
        /\ RopeLen(calls[i].Description)
              = maxJiraDescLength - guardMargin + LitLen["guardNotice"]

\* C2: the four limits add up to remainingChars = maxJiraDescLength -
\* essentialLength, exactly; what the three divisions drop is in payloadLimit.
C2_LimitsSumToRemaining ==
    BudgetDone =>
        /\ limits.remainingChars = maxJiraDescLength - essentialLength
        /\ limits.networkCallsLimit + limits.headersLimit + limits.responseLimit
              + limits.payloadLimit = limits.remainingChars
        /\ limits.remainingChars >= 0 =>
              limits.payloadLimit >= GoDiv(limits.remainingChars, 10)

\* A budget whose divisions dropped a remainder, which payloadLimit holds.
C2_Witness ==
    /\ BudgetDone
    /\ limits.remainingChars > 0
    /\ limits.remainingChars % 10 # 0
    /\ limits.payloadLimit > GoDiv(limits.remainingChars, 10)

\* C3: when essentialLength exceeds the ceiling, remainingChars is clamped to
\* zero and the four limits are zero; no limit is ever negative.
C3_ClampedAtZero ==
    BudgetDone =>
        /\ essentialLength > maxJiraDescLength =>
              /\ limits.remainingChars = 0
              /\ limits.networkCallsLimit = 0
              /\ limits.headersLimit = 0
              /\ limits.responseLimit = 0
              /\ limits.payloadLimit = 0
        /\ limits.networkCallsLimit >= 0
        /\ limits.headersLimit >= 0
        /\ limits.responseLimit >= 0
        /\ limits.payloadLimit >= 0

\* the step that renders the section has run (to its end or to its panic)
SectionDone(name) ==
    CASE name = "networkCalls" -> pc \notin {"start", "budget", "networkCalls"}
      [] name = "headers" ->
            /\ pc \notin {"start", "budget", "networkCalls", "headers"}
            /\ ~sections["networkCalls"].panics
      [] name = "response" ->
            /\ pc \notin {"start", "budget", "networkCalls", "headers", "response"}
            /\ ~sections["networkCalls"].panics
            /\ ~sections["headers"].panics
      [] name = "payload" ->
            /\ pc \notin {"start", "budget", "networkCalls", "headers", "response",
                          "payload"}
            /\ ~sections["networkCalls"].panics
            /\ ~sections["headers"].panics
            /\ ~sections["response"].panics

\* the "h3. Complete ..." heading of a section's block in the overflow document
CompleteHeading(name) ==
    CASE name = "networkCalls" -> Lit("completeNC")
      [] name = "headers" -> Lit("completeHdr")
      [] name = "response" -> Lit("completeResp")
      [] name = "payload" -> Lit("completePay")

\* the section holds a prefix of its content, then the truncation marker
CarriesMarker(sec) ==
    \E i \in 2..Len(sec.section) :
        /\ sec.section[i] \in {Lit("marker")[1], Lit("ncMarker")[1]}
        /\ \/ sec.section[i - 1] = Lit("codeJson")[1]
           \/ /\ sec.section[i - 1].s = sec.full[1].s
              /\ sec.section[i - 1].lo = 0
              /\ sec.section[i - 1].hi <= RopeLen(sec.full)

\* the overflow document holds the section's heading, then its whole content
OverflowHolds(name, sec) ==
    Contains(truncatedContent,
             CompleteHeading(name) \o Lit("codeJson") \o sec.full \o Lit("codeEnd"))

\* C4: a section whose rendered content is longer than its usable allocation
\* is in the primary document with the truncation marker after the kept
\* prefix, and the overflow document holds its heading and its whole content.
C4_TruncatedSectionIsComplete ==
    \A name \in SectionNames :
        (/\ SectionDone(name)
         /\ sections[name].rendered
         /\ RopeLen(sections[name].full) > sections[name].usable)
        => /\ CarriesMarker(sections[name])
           /\ Contains(description, sections[name].section)
           /\ OverflowHolds(name, sections[name])

\* C4 where the code does render the section: the content is longer than the
\* usable allocation and the cut is in range.
C4_Witness ==
    \E name \in SectionNames :
        /\ SectionDone(name)
        /\ sections[name].rendered
        /\ RopeLen(sections[name].full) > sections[name].usable
        /\ CarriesMarker(sections[name])
        /\ OverflowHolds(name, sections[name])

\* C5: when the final check finds the description longer than
\* maxJiraDescLength, the overflow document receives, under "h3. Full Original
\* Description", the whole description as it was, and the description becomes
\* its first maxJiraDescLength-100 characters followed by the notice.
C5_GuardKeepsWholeDocument ==
    (GuardDone /\ GuardFires(preGuard)) =>
        /\ wasTruncated
        /\ Contains(truncatedContent, Lit("fullOriginal") \o preGuard \o Lit("nn"))
        /\ RopeLen(RopeTake(preGuard, maxJiraDescLength - guardMargin))
              = maxJiraDescLength - guardMargin
        /\ description
              = RopeTake(preGuard, maxJiraDescLength - guardMargin)
                \o Lit("guardNotice")
        /\ RopeLen(description)
              = maxJiraDescLength - guardMargin + LitLen["guardNotice"]

\* The final check has fired.
C5_Witness == GuardDone /\ GuardFires(preGuard) /\ description # preGuard

\* C6: when Issue.Create fails, CreateTicket returns the error and no
\* response, and neither AddComment nor SaveTicket is called.
C6_CreateFailureIsFatal ==
    CreateFailed =>
        /\ CallsOf("AddComment") = {}
        /\ CallsOf("SaveTicket") = {}
        /\ result.kind # "response"
        /\ pc \in {"fail", "done"}
        /\ pc = "done" => result = CreateError

\* CreateTicket has returned after a failed Issue.Create.
C6_Witness == CreateFailed /\ pc = "done" /\ result = CreateError

\* C7: CreateTicket returns an error exactly when Issue.Create failed; once
\* Issue.Create has succeeded it returns the response (TicketID, "created",
\* the assignee, the link) whatever GetCreateMeta, AddComment and SaveTicket
\* answered.
C7_OnlyCreateFailureIsAnError ==
    pc = "done" =>
        /\ result.kind = "error" <=> CreateFailed
        /\ result.kind = "response" <=> CreateSucceeded
        /\ CreateSucceeded =>
              \A i \in CallsOf("Create") :
                  result = [ kind |-> "response", TicketID |-> "KEY",
                             Status |-> "created", AssignedTo |-> calls[i].Assignee,
                             JiraLink |-> "https://host/browse/KEY" ]

\* CreateTicket has returned the response although GetCreateMeta, AddComment
\* and SaveTicket all failed.
C7_Witness ==
    /\ pc = "done"
    /\ result.kind = "response"
    /\ \E i \in CallsOf("GetCreateMeta") : ~calls[i].ok
    /\ \E i \in CallsOf("AddComment") : ~calls[i].ok
    /\ \E i \in CallsOf("SaveTicket") : ~calls[i].ok

\* the place of a call in the order of the state sequence
CallRank(op) ==
    CASE op = "GetCreateMeta" -> 1
      [] op = "Create" -> 2
      [] op = "AddComment" -> 3
      [] op = "SaveTicket" -> 4

\* C8: the external calls are made in the order GetCreateMeta, Create,
\* AddComment (only when something was truncated), SaveTicket (only when a
\* store is configured); AddComment and SaveTicket only after a successful
\* Create, and SaveTicket never before AddComment.
C8_CallOrder ==
    /\ \A i, j \in 1..Len(calls) :
          i < j => CallRank(calls[i].op) < CallRank(calls[j].op)
    /\ \A j \in CallsOf("Create") : \E i \in CallsOf("GetCreateMeta") : i < j
    /\ \A j \in CallsOf("AddComment") \cup CallsOf("SaveTicket") :
          \E i \in CallsOf("Create") : i < j /\ calls[i].ok
    /\ CallsOf("AddComment") # {} => wasTruncated
    /\ CallsOf("SaveTicket") # {} => mongoConfigured
    /\ (pc = "done" /\ CreateSucceeded) =>
          /\ wasTruncated => CallsOf("AddComment") # {}
          /\ mongoConfigured => CallsOf("SaveTicket") # {}

\* All four calls were made, in this order.
C8_Witness ==
    /\ pc = "done"
    /\ Len(calls) = 4
    /\ calls[1].op = "GetCreateMeta"
    /\ calls[2].op = "Create"
    /\ calls[3].op = "AddComment"
    /\ calls[4].op = "SaveTicket"

\* C9: once the request's context is cancelled, no further step (Create,
\* AddComment, SaveTicket) is started.
C9_CancellationStopsSteps == [][ctxCancelled => calls' = calls]_vars

\* C10: GetNetworkCalls returns the same list for a JSON array given plain,
\* given wrapped in quotes with its quotes and backslashes escaped, and given
\* JSON-encoded a second time; for a string that is no JSON it returns an
\* empty list with an error, and it does not abort.
C10_AllEncodingsParseAlike ==
    pc = "parsed" =>
        /\ parsed.kind = "returned"
        /\ origin.form \in {"plain", "quoted", "double"} =>
              /\ ~parsed.err
              /\ parsed.calls = origin.calls
        /\ origin.form = "garbage" =>
              /\ parsed.err
              /\ parsed.calls = <<>>

\* C10 for the plain and the quote-wrapped array only: these do parse alike.
C10_PlainAndQuotedParseAlike ==
    (pc = "parsed" /\ origin.form \in {"plain", "quoted"}) =>
        /\ parsed.kind = "returned"
        /\ ~parsed.err
        /\ parsed.calls = origin.calls

\* C14: for every remainingChars R >= 0 the limits are floor(R/2), floor(R/5),
\* floor(R/5) and R minus these three, which is at least floor(R/10); an
\* essentialLength of 30000 gives 2000 and the limits 1000, 400, 400, 200.
C14_LimitsAreTheShares ==
    (BudgetDone /\ limits.remainingChars >= 0) =>
        /\ limits.remainingChars = maxJiraDescLength - essentialLength
        /\ limits.networkCallsLimit = limits.remainingChars \div 2
        /\ limits.headersLimit = limits.remainingChars \div 5
        /\ limits.responseLimit = limits.remainingChars \div 5
        /\ limits.payloadLimit
              = limits.remainingChars - (limits.remainingChars \div 2)
                - 2 * (limits.remainingChars \div 5)
        /\ limits.payloadLimit >= limits.remainingChars \div 10
        /\ essentialLength = 30000 =>
              limits = [ remainingChars |-> 2000, networkCallsLimit |-> 1000,
                         headersLimit |-> 400, responseLimit |-> 400,
                         payloadLimit |-> 200 ]

\* The budget of an essentialLength of 30000.
C14_Witness ==
    /\ BudgetDone
    /\ essentialLength = 30000
    /\ limits.remainingChars = 2000
    /\ limits.payloadLimit = 200

\* the assignee has been selected
AssigneeSelected ==
    pc \in {"lookup", "create", "comment", "save", "return", "fail", "done"}

\* C15: with an empty roster the assignee is the empty string; with a roster
\* of N >= 1 entries it is one of the entries, each entry can be selected, and
\* the roster is left as it was.
C15_AssigneeFromRoster ==
    /\ [](AssigneeSelected =>
            IF supportTeam = <<>> THEN assignee = ""
            ELSE \E i \in 1..Len(supportTeam) : assignee = supportTeam[i])
    /\ [](pc = "assign" =>
            \A i \in 1..Len(supportTeam) :
                ENABLED (SelectAssignee /\ assignee' = supportTeam[i]))
    /\ [][supportTeam' = supportTeam]_vars

\* The last entry of a roster of two was selected.
C15_Witness ==
    /\ AssigneeSelected
    /\ Len(supportTeam) = 2
    /\ assignee = supportTeam[2]

\* the blocks of the overflow document: truncatedContent after the line it is
\* opened with (line 57)
OverflowBlocks == Tail(truncatedContent)

SomeSectionTruncated == \E name \in SectionNames : sections[name].truncated

\* the final check found the description longer than the ceiling
GuardFired == GuardDone /\ RopeLen(preGuard) > maxJiraDescLength

\* C16: the overflow document holds a block only if a variable section was
\* truncated or the final check fired; when nothing was truncated it holds
\* none.
C16_OverflowOnlyWhenTruncated ==
    /\ truncatedContent # <<>>
    /\ <<Head(truncatedContent)>> = Lit("additional")
    /\ OverflowBlocks # <<>> => (SomeSectionTruncated \/ GuardFired)
    /\ wasTruncated <=> (SomeSectionTruncated \/ GuardFired)
    /\ ~wasTruncated => OverflowBlocks = <<>>

\* CreateTicket has come to its end without truncating anything, and the
\* overflow document holds no block.
C16_Witness ==
    /\ pc = "done"
    /\ ~wasTruncated
    /\ OverflowBlocks = <<>>
    /\ \A name \in {"headers", "response", "payload"} : sections[name].section # <<>>
    /\ sections["payload"].rendered

\* C17: after a successful Issue.Create, AddComment is called if and only if
\* a variable section was truncated or the final check fired; a report that
\* fits in the description never gets a comment.
C17_CommentIffTruncated ==
    /\ CallsOf("AddComment") # {} =>
          (CreateSucceeded /\ (SomeSectionTruncated \/ GuardFired))
    /\ (CreateSucceeded /\ pc \in {"save", "return", "done"}) =>
          (CallsOf("AddComment") # {} <=> (SomeSectionTruncated \/ GuardFired))

\* The comment was added for a truncated section alone, the final check not
\* having fired.
C17_Witness ==
    /\ pc = "done"
    /\ CreateSucceeded
    /\ CallsOf("AddComment") # {}
    /\ SomeSectionTruncated
    /\ ~GuardFired

\* C18: the body handed to AddComment is never longer than maxJiraDescLength:
\* an overflow document longer than that is cut to its first
\* maxJiraDescLength-100 characters followed by the notice; a shorter one is
\* sent whole; and there is one comment at most.
C18_CommentWithinCeiling ==
    /\ Cardinality(CallsOf("AddComment")) <= 1
    /\ \A i \in CallsOf("AddComment") :
          /\ RopeLen(calls[i].Body) <= maxJiraDescLength
          /\ IF RopeLen(truncatedContent) > maxJiraDescLength
             THEN /\ calls[i].Body
                        = RopeTake(truncatedContent, maxJiraDescLength - guardMargin)
                          \o Lit("commentNotice")
                  /\ RopeLen(calls[i].Body)
                        = maxJiraDescLength - guardMargin + LitLen["commentNotice"]
             ELSE calls[i].Body = truncatedContent

\* A comment whose body had to be cut.
C18_Witness ==
    \E i \in CallsOf("AddComment") :
        /\ RopeLen(truncatedContent) > maxJiraDescLength
        /\ RopeLen(calls[i].Body)
              = maxJiraDescLength - guardMargin + LitLen["commentNotice"]

\* C20: without a store SaveTicket is never called and CreateTicket still
\* returns the response after a successful Issue.Create; with a store
\* SaveTicket is called exactly once after every successful Issue.Create,
\* whether AddComment succeeded or not.
C20_SaveOnceWhenConfigured ==
    /\ ~mongoConfigured =>
          /\ CallsOf("SaveTicket") = {}
          /\ (pc = "done" /\ CreateSucceeded) => result = TicketResponse(assignee)
    /\ Cardinality(CallsOf("SaveTicket")) <= 1
    /\ CallsOf("SaveTicket") # {} => CreateSucceeded
    /\ (mongoConfigured /\ CreateSucceeded /\ pc \in {"return", "done"}) =>
          Cardinality(CallsOf("SaveTicket")) = 1

\* The ticket was saved although the comment could not be added.
C20_Witness ==
    /\ pc = "done"
    /\ mongoConfigured
    /\ \E i \in CallsOf("AddComment") : ~calls[i].ok
    /\ Cardinality(CallsOf("SaveTicket")) = 1

\* a report with an empty payload, an empty response, no request headers and
\* no image reference
EmptyReport ==
    /\ ~req.hasIssue
    /\ PayloadKnownEntries(req) = <<>>
    /\ req.payExtra = 0
    /\ req.nc.kind = "absent"
    /\ req.headersLen = 0
    /\ req.resp.kind = "empty"
    /\ req.image.kind = "empty"

\* the section is one of the "No ... available." lines in its panel
IsPlaceholder(sec) ==
    /\ ~sec.rendered
    /\ \E i \in 1..Len(sec.section) : sec.section[i].s \in {"noHeaders", "noResponse"}

\* C13 as stated: for such a report each of the four variable sections is a
\* "No ... available." placeholder in the description, none is truncated and
\* the overflow document holds nothing.
C13_AllSectionsArePlaceholders ==
    (EmptyReport /\ SectionDone("payload")) =>
        /\ \A name \in SectionNames :
              /\ IsPlaceholder(sections[name])
              /\ Contains(description, sections[name].section)
        /\ ~wasTruncated
        /\ OverflowBlocks = <<>>

\* C13 as the code has it: the request headers and the response are
\* "No ... available." placeholders, the network calls section is left out,
\* the payload section holds the JSON of the empty map, "{}"; nothing is
\* truncated, the overflow document holds nothing and no comment is added.
C13_EmptyReportSections ==
    (EmptyReport /\ SectionDone("payload")) =>
        /\ sections["networkCalls"].section = <<>>
        /\ sections["headers"].section
              = Lit("headersStart") \o Lit("noHeaders") \o Lit("sectionEnd")
        /\ sections["response"].section
              = Lit("responseStart") \o Lit("noResponse") \o Lit("sectionEnd")
        /\ sections["payload"].section
              = Lit("payloadStart") \o Lit("codeJson") \o Str("payloadJSON", 2)
                \o Lit("codeEnd") \o Lit("sectionEnd")
        /\ IsPlaceholder(sections["headers"])
        /\ IsPlaceholder(sections["response"])
        /\ Contains(preGuard \o description,
                    Lit("technical") \o sections["headers"].section
                    \o sections["response"].section \o sections["payload"].section)
        /\ \A name \in SectionNames : ~sections[name].truncated
        /\ ~wasTruncated
        /\ OverflowBlocks = <<>>
        /\ CallsOf("AddComment") = {}

\* CreateTicket has returned for such a report.
C13_Witness ==
    /\ EmptyReport
    /\ pc = "done"
    /\ CreateSucceeded
    /\ IsPlaceholder(sections["headers"])
    /\ sections["payload"].rendered

\* ReportIssue is past the place where it calls CreateTicket
TicketRequested == pc \notin {"bind", "upload", "parse", "parsed"} /\ handler.tickets > 0

\* GetNetworkCalls returned an error for a field that is not empty
ParseFailed == fnc # <<>> /\ parsed.kind = "returned" /\ parsed.err

\* C11: whenever GetNetworkCalls fails on a non-empty failedNetworkCalls,
\* ReportIssue still calls CreateTicket, and the payload holds the raw string
\* at rawNetworkCallsJSON next to an empty list at failedNetworkCalls.
C11_RawStringKept ==
    (ParseFailed /\ pc \notin {"parse", "parsed"}) =>
        /\ handler.tickets = 1
        /\ handler.payload.rawNetworkCallsJSON = [present |-> TRUE, str |-> fnc]
        /\ handler.payload.failedNetworkCalls = CallsValue(<<>>, FALSE)

\* C11 where the field is no JSON at all: there the raw string is kept.
C11_RawStringKeptForNonJSON ==
    (ParseFailed /\ ~ParsesAsGenericJSON(fnc) /\ pc \notin {"parse", "parsed"}) =>
        /\ handler.tickets = 1
        /\ handler.path = "original"
        /\ handler.payload.rawNetworkCallsJSON = [present |-> TRUE, str |-> fnc]
        /\ handler.payload.failedNetworkCalls = CallsValue(<<>>, FALSE)

\* the upload was tried and failed
UploadFailed == \E i \in 1..Len(handler.uploads) : ~handler.uploads[i].ok

\* C12: when the upload of the screenshot fails, ReportIssue still calls
\* CreateTicket exactly once, with an empty image reference, and answers by
\* what CreateTicket returned alone.
C12_UploadFailureIsSoft ==
    (UploadFailed /\ pc = "responded") =>
        /\ handler.tickets = 1
        /\ req.image.kind = "empty"
        /\ handler.status = 201 <=> result.kind = "response"
        /\ handler.status = 500 <=> result.kind # "response"

\* C12 but for the requests on which GetNetworkCalls panics.
C12_UploadFailureIsSoftUnlessPanic ==
    (UploadFailed /\ pc = "responded" /\ parsed.kind # "panicked") =>
        /\ handler.tickets = 1
        /\ req.image.kind = "empty"
        /\ handler.status = 201 <=> result.kind = "response"
        /\ handler.status = 500 <=> result.kind # "response"

\* C19: within one request each external call is made once at most, also
\* after it failed: UploadFile, GetCreateMeta, Issue.Create, AddComment and
\* SaveTicket; and ReportIssue calls CreateTicket once at most, whichever
\* TicketRequest it builds.
C19_EachCallAtMostOnce ==
    /\ Len(handler.uploads) <= 1
    /\ handler.tickets <= 1
    /\ \A op \in {"GetCreateMeta", "Create", "AddComment", "SaveTicket"} :
          Cardinality(CallsOf(op)) <= 1
    /\ calls # <<>> => handler.tickets = 1
    /\ handler.path = "none" <=> handler.tickets = 0

\* A request whose upload, issue type lookup, comment and save all failed,
\* answered after one call of each.
C19_Witness ==
    /\ pc = "responded"
    /\ handler.tickets = 1
    /\ handler.path = "generic"
    /\ handler.uploads = << [ok |-> FALSE] >>
    /\ Len(calls) = 4
    /\ \A i \in {1, 3, 4} : ~calls[i].ok

\* the final check has run in the frame f
GuardDoneIn(f) ==
    f.pc \in {"assign", "lookup", "create", "comment", "save", "return", "fail", "done"}

\* what the four sections of the request r are under the limits lim
SectionsOf(r, lim) ==
    [ networkCalls |-> NetworkCallsSection(r, lim.networkCallsLimit),
      headers      |-> HeaderSection(r, lim.headersLimit),
      response     |-> ResponseSection(r, lim.responseLimit),
      payload      |-> PayloadSection(r, lim.payloadLimit) ]

\* The documents and the result in the frame f are those of its own request,
\* its own assignee and the answers to its own calls.
OwnOutcome(f) ==
    /\ GuardDoneIn(f) =>
          /\ f.essentialLength = RopeLen(EssentialContent(f.req))
          /\ f.limits = Budget(f.essentialLength)
          /\ f.sections = SectionsOf(f.req, f.limits)
          /\ f.preGuard
                = EssentialContent(f.req) \o f.sections["networkCalls"].section
                  \o Lit("technical") \o f.sections["headers"].section
                  \o f.sections["response"].section \o f.sections["payload"].section
          /\ f.description
                = IF GuardFires(f.preGuard) THEN GuardedDescription(f.preGuard)
                  ELSE f.preGuard
          /\ f.truncatedContent
                = Lit("additional") \o f.sections["networkCalls"].overflow
                  \o f.sections["headers"].overflow \o f.sections["response"].overflow
                  \o f.sections["payload"].overflow
                  \o (IF GuardFires(f.preGuard) THEN GuardOverflow(f.preGuard)
                      ELSE <<>>)
    /\ \A i \in 1..Len(f.calls) :
          /\ f.calls[i].op = "Create" =>
                /\ f.calls[i].Description = f.description
                /\ f.calls[i].Assignee = f.assignee
          /\ f.calls[i].op = "AddComment" =>
                f.calls[i].Body = CommentBody(f.truncatedContent)
    /\ f.pc = "done" =>
          /\ f.assignee \in getRandomTeamMember(supportTeam)
          /\ \E i \in 1..Len(f.calls) :
                /\ f.calls[i].op = "Create"
                /\ f.result = IF f.calls[i].ok THEN TicketResponse(f.assignee)
                              ELSE CreateError

\* C21: two executions of CreateTicket on the same JiraService do not
\* interfere: under every interleaving the primary document, the overflow
\* document and the result of each are those of its own request, its own
\* assignee and the answers to its own calls, every step changes the frame of
\* one execution only, and the roster and the configuration of the service
\* are never written.
C21_NoInterference ==
    /\ [](OwnOutcome(Frame) /\ OwnOutcome(peer))
    /\ [][/\ supportTeam' = supportTeam
          /\ mongoConfigured' = mongoConfigured
          /\ \/ peer' = peer
             \/ peer' = Frame /\ Frame' = peer]_vars

\* Both executions are under way with different requests: one has built its
\* sections and cut some, the other has its issue and goes on to the comment.
C21_Witness ==
    /\ pc = "comment"
    /\ peer.pc = "guard"
    /\ req # peer.req
    /\ wasTruncated
    /\ peer.wasTruncated
    /\ peer.truncatedContent # truncatedContent

\* the first n of the blocks of the primary document, in the order in which
\* lines 60, 64, 93, 98-100, 106, 170, 173, 227, 273 and 315 append them
BlocksInOrder(n) ==
    (IF n >= 1 THEN IssueSummary(req) ELSE <<>>)
    \o (IF n >= 2 THEN DescriptionBlock(req) ELSE <<>>)
    \o (IF n >= 3 THEN MetadataBlock(req) ELSE <<>>)
    \o (IF n >= 4 THEN ScreenshotBlock(req) ELSE <<>>)
    \o (IF n >= 5 THEN timestamp ELSE <<>>)
    \o (IF n >= 6 THEN sections["networkCalls"].section ELSE <<>>)
    \o (IF n >= 7 THEN Lit("technical") ELSE <<>>)
    \o (IF n >= 8 THEN sections["headers"].section ELSE <<>>)
    \o (IF n >= 9 THEN sections["response"].section ELSE <<>>)
    \o (IF n >= 10 THEN sections["payload"].section ELSE <<>>)

\* C22, as claimed: the assembled primary document is the summary, the
\* description, the metadata, the screenshot, the four variable sections
\* (network calls, request headers, response, payload), the technical-details
\* heading and, last, the timestamp line.
C22_TimestampLast ==
    GuardDone =>
        preGuard = IssueSummary(req) \o DescriptionBlock(req) \o MetadataBlock(req)
                   \o ScreenshotBlock(req) \o sections["networkCalls"].section
                   \o sections["headers"].section \o sections["response"].section
                   \o sections["payload"].section \o Lit("technical") \o timestamp

\* C22, as the code has it: the primary document is, in this order, the
\* summary, the description, the metadata, the screenshot, the timestamp
\* line, the network calls section, the technical-details heading, the
\* request headers, the response and the payload; while it is assembled,
\* and when a section's cut aborts the assembly, it is a prefix of that.
C22_BlocksInCodeOrder ==
    /\ pc \in {"budget", "networkCalls"} => description = BlocksInOrder(5)
    /\ pc = "headers" => description = BlocksInOrder(7)
    /\ pc = "response" => description = BlocksInOrder(8)
    /\ pc = "payload" => description = BlocksInOrder(9)
    /\ GuardDone => preGuard = BlocksInOrder(10)
    /\ pc = "panicked" => \E n \in {5, 7, 8, 9} : description = BlocksInOrder(n)

\* A document with every block in it has been assembled.
C22_Witness ==
    /\ GuardDone
    /\ DescriptionBlock(req) # <<>>
    /\ MetadataBlock(req) # <<>>
    /\ ScreenshotBlock(req) # <<>>
    /\ sections["networkCalls"].section # <<>>
    /\ preGuard = BlocksInOrder(10)

\* the limit of a section
LimitOf(name) ==
    CASE name = "networkCalls" -> limits.networkCallsLimit
      [] name = "headers" -> limits.headersLimit
      [] name = "response" -> limits.responseLimit
      [] name = "payload" -> limits.payloadLimit

\* the step that renders the section has run, and the section holds content
\* rendered to a string
Rendered(name) == SectionDone(name) /\ sections[name].rendered

\* the section is its wrappers around the whole content, and nothing is noted
PlacedUnmodified(sec) ==
    /\ ~sec.truncated
    /\ ~sec.panics
    /\ sec.overflow = <<>>
    /\ \E i \in 1..Len(sec.section) - 2 :
          /\ sec.section[i] = Lit("codeJson")[1]
          /\ <<sec.section[i + 1]>> = sec.full
          /\ sec.section[i + 2] = Lit("codeEnd")[1]

\* the section is recorded as truncated and holds exactly the first n
\* characters of its content, then the truncation marker
CutTo(sec, n) ==
    /\ sec.truncated
    /\ ~sec.panics
    /\ \E i \in 1..Len(sec.section) - 2 :
          /\ sec.section[i] = Lit("codeJson")[1]
          /\ <<sec.section[i + 1]>> = RopeTake(sec.full, n)
          /\ RopeLen(RopeTake(sec.full, n)) = n
          /\ sec.section[i + 2] \in {Lit("marker")[1], Lit("ncMarker")[1]}

\* C23, as claimed: with the usable budget U = A - V, content of length <= U
\* is placed unmodified and nothing is recorded, and longer content is
\* replaced by exactly its first U characters and the marker.
C23_CutAtUsable ==
    \A name \in SectionNames :
        Rendered(name) =>
            /\ sections[name].usable = LimitOf(name) - WrapperLength(name)
            /\ IF RopeLen(sections[name].full) <= sections[name].usable
               THEN PlacedUnmodified(sections[name])
               ELSE CutTo(sections[name], sections[name].usable)

\* the margin below U from which the code cuts: 20, and 30 where the content
\* is the %v rendering of a value that json cannot marshal
TriggerMarginOf(name) ==
    IF \/ name = "response" /\ req.resp.kind = "unmarshalable"
       \/ name = "payload" /\ req.payErr
    THEN sectionCutMargin ELSE triggerMargin

\* the margin below U of the prefix that is kept
CutMarginOf(name) ==
    IF name = "networkCalls" THEN networkCallsCutMargin ELSE sectionCutMargin

\* C23, as the code has it: with U = A - V, content of length <= U - 20 (U - 30
\* for a %v rendering) is placed unmodified and nothing is recorded; longer
\* content is recorded as truncated and is cut to its first U - 50 (network
\* calls) or U - 30 characters, followed by the marker; the cut is made when
\* that length lies within the content, and the execution aborts there when it
\* does not.
C23_CutBelowUsable ==
    \A name \in SectionNames :
        Rendered(name) =>
            /\ sections[name].usable = LimitOf(name) - WrapperLength(name)
            /\ IF RopeLen(sections[name].full)
                     <= sections[name].usable - TriggerMarginOf(name)
               THEN PlacedUnmodified(sections[name])
               ELSE /\ sections[name].truncated
                    /\ IF SliceInRange(sections[name].usable - CutMarginOf(name),
                                       RopeLen(sections[name].full))
                       THEN CutTo(sections[name],
                                  sections[name].usable - CutMarginOf(name))
                       ELSE sections[name].panics

\* Content that fits its usable budget, though not by 20, has been cut, to
\* less than the budget.
C23_Witness ==
    \E name \in SectionNames :
        /\ Rendered(name)
        /\ RopeLen(sections[name].full) <= sections[name].usable
        /\ RopeLen(sections[name].full) > sections[name].usable - TriggerMarginOf(name)
        /\ CutTo(sections[name], sections[name].usable - CutMarginOf(name))

\* C24: the essential content is never cut: the description handed to
\* Issue.Create begins with the whole summary, description block, metadata
\* block, screenshot block and timestamp line of the request, also when the
\* final check has cut the document.
C24_EssentialContentIsWhole ==
    \A i \in CallsOf("Create") :
        /\ essentialLength
              = RopeLen(IssueSummary(req)) + RopeLen(DescriptionBlock(req))
                + RopeLen(MetadataBlock(req)) + RopeLen(ScreenshotBlock(req))
                + RopeLen(timestamp)
        /\ RopeTake(calls[i].Description, essentialLength)
              = IssueSummary(req) \o DescriptionBlock(req) \o MetadataBlock(req)
                \o ScreenshotBlock(req) \o timestamp

\* A document with all five essential blocks was cut by the final check and
\* handed to Issue.Create.
C24_Witness ==
    \E i \in CallsOf("Create") :
        /\ GuardFires(preGuard)
        /\ calls[i].Description = GuardedDescription(preGuard)
        /\ DescriptionBlock(req) # <<>>
        /\ MetadataBlock(req) # <<>>
        /\ ScreenshotBlock(req) # <<>>

\* the section was rendered in its truncated form
TruncatedSection(name) ==
    Rendered(name) /\ sections[name].truncated /\ ~sections[name].panics

\* C25: a section whose content was truncated occupies, wrappers and marker
\* included, no more characters of the primary document than its allocation,
\* and its block of the overflow document holds the original content in full.
C25_TruncatedSectionWithinAllocation ==
    \A name \in SectionNames :
        TruncatedSection(name) =>
            /\ RopeLen(sections[name].section) <= LimitOf(name)
            /\ OverflowHolds(name, sections[name])

\* What the code does: a truncated section is longer than its allocation, by
\* 36 characters (network calls) or by 9; its overflow block is complete.
C25_TruncatedSectionExceedsAllocation ==
    \A name \in SectionNames :
        TruncatedSection(name) =>
            /\ RopeLen(sections[name].section)
                  = LimitOf(name) + (IF name = "networkCalls" THEN 36 ELSE 9)
            /\ OverflowHolds(name, sections[name])

\* The network calls of 50000 characters were cut, and the section is longer
\* than its allocation.
C25_Witness ==
    /\ TruncatedSection("networkCalls")
    /\ RopeLen(sections["networkCalls"].full) = BigLen
    /\ RopeLen(sections["networkCalls"].section) > limits.networkCallsLimit

\* C26: the issue type id handed to Issue.Create is never empty: it is the id
\* of the project's Bug type when GetCreateMeta succeeds and has one, and
\* "10001" when GetCreateMeta fails or has none; whatever GetCreateMeta
\* answers, Issue.Create is the next call.
C26_IssueTypeNeverEmpty ==
    /\ \A i \in CallsOf("Create") :
          /\ calls[i].Type # ""
          /\ \E j \in CallsOf("GetCreateMeta") :
                /\ j < i
                /\ calls[j].meta = "bug" => calls[i].Type = "bugId"
                /\ calls[j].meta \in {"error", "noBug"} => calls[i].Type = "10001"
    /\ (CallsOf("GetCreateMeta") # {} /\ CallsOf("Create") = {}) => pc = "create"
    /\ pc \in {"comment", "save", "return", "fail", "done"} => CallsOf("Create") # {}

\* Issue.Create was called with the default id after GetCreateMeta failed.
C26_Witness ==
    \E i \in CallsOf("Create"), j \in CallsOf("GetCreateMeta") :
        /\ ~calls[j].ok
        /\ calls[i].Type = "10001"

\* C27: every prefix length a truncating branch cuts at (the limit minus the
\* wrappers minus 30, or 50) lies between 0 and the length of the content it
\* cuts, so that CreateTicket never aborts in a section, whatever the
\* request, also when essentialLength is near or above the ceiling.
C27_CutsInRange ==
    /\ \A name \in SectionNames :
          (Rendered(name) /\ sections[name].truncated) =>
              SliceInRange(sections[name].usable - CutMarginOf(name),
                           RopeLen(sections[name].full))
    /\ pc # "panicked"

\* CreateTicket has aborted in the payload section: the prefix length is
\* negative.
C27_Witness ==
    /\ pc = "panicked"
    /\ sections["payload"].panics
    /\ sections["payload"].usable - sectionCutMargin < 0
    /\ calls = <<>>

\* all four sections were rendered in their truncated form
AllSectionsTruncated == \A name \in SectionNames : TruncatedSection(name)

\* C28: whenever all four sections are truncated, the sections together with
\* the technical-details heading are longer than remainingChars (by 86
\* characters), so the assembled document is longer than maxJiraDescLength and
\* the final check cuts it.
C28_AllTruncatedExceedsCeiling ==
    (GuardDone /\ AllSectionsTruncated) =>
        /\ RopeLen(preGuard) - essentialLength = limits.remainingChars + 86
        /\ RopeLen(preGuard) > maxJiraDescLength
        /\ wasTruncated
        /\ description # preGuard
        /\ RopeLen(description) < RopeLen(preGuard)
        /\ Contains(truncatedContent, Lit("fullOriginal") \o preGuard \o Lit("nn"))

\* All four sections were truncated, each with content that its usable budget
\* could have held, and the final check has run.
C28_Witness ==
    /\ GuardDone
    /\ AllSectionsTruncated
    /\ \A name \in {"networkCalls", "headers", "response"} :
          RopeLen(sections[name].full) <= sections[name].usable
    /\ description # preGuard

\* C29: whenever the final check cuts the description, the overflow document
\* holds that whole description and is therefore longer than
\* maxJiraDescLength itself: the comment handed to AddComment is its first
\* maxJiraDescLength-100 characters and the notice, never the whole of it.
C29_GuardMeansCutComment ==
    (GuardDone /\ RopeLen(preGuard) > maxJiraDescLength) =>
        /\ Contains(truncatedContent, Lit("fullOriginal") \o preGuard \o Lit("nn"))
        /\ RopeLen(truncatedContent) > maxJiraDescLength
        /\ \A i \in CallsOf("AddComment") :
              /\ calls[i].Body
                    = RopeTake(truncatedContent, maxJiraDescLength - guardMargin)
                      \o Lit("commentNotice")
              /\ calls[i].Body # truncatedContent
              /\ RopeLen(calls[i].Body) < RopeLen(truncatedContent)

\* The final check has cut the description and AddComment was called, with
\* the cut form of the overflow document.
C29_Witness ==
    /\ GuardDone
    /\ RopeLen(preGuard) > maxJiraDescLength
    /\ \E i \in CallsOf("AddComment") :
          RopeLen(calls[i].Body)
              = maxJiraDescLength - guardMargin + LitLen["commentNotice"]

\* C30: the page URL in the metadata of the primary document and the page
\* URL of the flattened ticket handed to SaveTicket are the same value: the
\* payload's url when that is a non-empty string, otherwise req.URL.
C30_SamePageURL ==
    \A i \in CallsOf("SaveTicket") :
        /\ calls[i].PageURL
              = (IF req.url.isString /\ req.url.len > 0
                 THEN Str("payload.url", req.url.len)
                 ELSE Str("req.URL", req.reqURLLen))
        /\ calls[i].PageURL # <<>> =>
              Contains(preGuard, Lit("pageURL") \o calls[i].PageURL \o Lit("nl"))
        /\ calls[i].PageURL = <<>> => ~Contains(preGuard, Lit("pageURL"))

\* C30 but for a payload whose url is the empty string: there the two agree.
C30_SamePageURLUnlessEmptyString ==
    \A i \in CallsOf("SaveTicket") :
        ~(req.url.isString /\ req.url.len = 0) =>
            /\ calls[i].PageURL
                  = (IF req.url.isString THEN Str("payload.url", req.url.len)
                     ELSE Str("req.URL", req.reqURLLen))
            /\ calls[i].PageURL # <<>> =>
                  Contains(preGuard, Lit("pageURL") \o calls[i].PageURL \o Lit("nl"))
            /\ calls[i].PageURL = <<>> => ~Contains(preGuard, Lit("pageURL"))

\* The payload's url is the empty string and req.URL is not: the document
\* shows req.URL and the flattened ticket holds "".
C30_Witness ==
    \E i \in CallsOf("SaveTicket") :
        /\ req.url.isString
        /\ req.url.len = 0
        /\ req.reqURLLen > 0
        /\ calls[i].PageURL = <<>>
        /\ Contains(preGuard, Lit("pageURL") \o Str("req.URL", req.reqURLLen))

=============================================================================
